---- MODULE Spec2Model ----
(***************************************************************************)
(* Model of the tabular transformation engine of insight-stream:           *)
(* backend/server/controllers/dataController.js (processCommand,           *)
(* executeOperation, executeCode, executeChain),                           *)
(* backend/server/services/operationRegistry.js,                           *)
(* backend/server/services/dataProcessingService.js and                    *)
(* backend/server/services/codeExecutorService.js.                         *)
(*                                                                         *)
(* JavaScript strings are sequences of one-character strings.  Numbers are *)
(* fixed-point with two decimals (the precision Math.round(x*100)/100      *)
(* keeps): the integer n stands for n/Scale.  Row objects live in a heap   *)
(* and arrays hold references, so that in-place writes are visible through *)
(* every alias, as they are in JavaScript.                                 *)
(***************************************************************************)
EXTENDS Integers, Sequences, FiniteSets, TLC

Scale == 100

(***************************************************************************)
(* Strings                                                                 *)
(***************************************************************************)
UpperChars == <<"A","B","C","D","E","F","G","H","I","J","K","L","M",
                "N","O","P","Q","R","S","T","U","V","W","X","Y","Z">>
LowerChars == <<"a","b","c","d","e","f","g","h","i","j","k","l","m",
                "n","o","p","q","r","s","t","u","v","w","x","y","z">>
Digits == <<"0","1","2","3","4","5","6","7","8","9">>

IsDigit(c) == \E i \in 1..10 : Digits[i] = c
DigitVal(c) == (CHOOSE i \in 1..10 : Digits[i] = c) - 1
IsSpace(c) == c = " "

LowerChar(c) ==
  IF \E i \in 1..26 : UpperChars[i] = c
    THEN LowerChars[CHOOSE i \in 1..26 : UpperChars[i] = c]
    ELSE c
UpperChar(c) ==
  IF \E i \in 1..26 : LowerChars[i] = c
    THEN UpperChars[CHOOSE i \in 1..26 : LowerChars[i] = c]
    ELSE c

toLowerCase(s) == [i \in 1..Len(s) |-> LowerChar(s[i])]

RECURSIVE TrimStart(_)
TrimStart(s) ==
  IF s # <<>> /\ IsSpace(Head(s)) THEN TrimStart(Tail(s)) ELSE s
RECURSIVE TrimEnd(_)
TrimEnd(s) ==
  IF s # <<>> /\ IsSpace(s[Len(s)]) THEN TrimEnd(SubSeq(s, 1, Len(s) - 1)) ELSE s
trim(s) == TrimEnd(TrimStart(s))

\* s.includes(sub)
includes(s, sub) ==
  \E i \in 0..(Len(s) - Len(sub)) : SubSeq(s, i + 1, i + Len(sub)) = sub
Drop(s, n) == SubSeq(s, n + 1, Len(s))

\* the array method includes / indexOf on a sequence
Has(seq, x) == \E i \in 1..Len(seq) : seq[i] = x
\* Array.prototype.find: first element satisfying the test, by position
FirstIdx(seq, Test(_)) ==
  IF \E i \in 1..Len(seq) : Test(seq[i])
    THEN CHOOSE i \in 1..Len(seq) : Test(seq[i]) /\ \A j \in 1..(i - 1) : ~Test(seq[j])
    ELSE 0
\* SelectIdx with the kept elements in the reverse order
RECURSIVE SelectIdxReversed(_, _, _)
SelectIdxReversed(seq, Keep, i) ==
  IF i > Len(seq) THEN <<>>
  ELSE SelectIdxReversed(seq, Keep, i + 1) \o (IF i \in Keep THEN <<seq[i]>> ELSE <<>>)
\* Array.prototype.filter: the elements satisfying the test, in order
RECURSIVE SelectIdx(_, _, _)
SelectIdx(seq, Keep, i) ==
  IF i > Len(seq) THEN <<>>
  ELSE (IF i \in Keep THEN <<seq[i]>> ELSE <<>>) \o SelectIdx(seq, Keep, i + 1)

AllDigits(s) == s # <<>> /\ \A i \in 1..Len(s) : IsDigit(s[i])
RECURSIVE DigitsVal(_)
DigitsVal(s) == IF s = <<>> THEN 0 ELSE 10 * DigitsVal(SubSeq(s, 1, Len(s) - 1)) + DigitVal(s[Len(s)])
RECURSIVE NatToStr(_)
NatToStr(n) == IF n < 10 THEN <<Digits[n + 1]>> ELSE NatToStr(n \div 10) \o <<Digits[(n % 10) + 1]>>

(***************************************************************************)
(* Cell values: a number, a string, null or undefined (absent key).        *)
(***************************************************************************)
Num(k) == [t |-> "num", n |-> k * Scale, s |-> <<>>]
Fix(h) == [t |-> "num", n |-> h, s |-> <<>>]
Str(s) == [t |-> "str", n |-> 0, s |-> s]
Null == [t |-> "null", n |-> 0, s |-> <<>>]
Undefined == [t |-> "undef", n |-> 0, s |-> <<>>]
\* the result of Number(x): NaN or a fixed-point number
NaN == [nan |-> TRUE, n |-> 0]
Finite(h) == [nan |-> FALSE, n |-> h]

\* val !== null && val !== undefined && val !== ''
NonEmpty(c) == ~(c.t = "null" \/ c.t = "undef" \/ (c.t = "str" /\ c.s = <<>>))

\* the numeric value of a string: whitespace trimmed, "" is 0, an optional
\* sign, digits and at most two decimals; anything else is NaN
ParseUnsigned(s) ==
  IF AllDigits(s) THEN Finite(DigitsVal(s) * Scale)
  ELSE IF \E i \in 1..Len(s) : s[i] = "."
    THEN LET p == CHOOSE i \in 1..Len(s) : s[i] = "." /\ \A j \in 1..(i - 1) : s[j] # "."
             ip == SubSeq(s, 1, p - 1)
             fp == SubSeq(s, p + 1, Len(s))
         IN IF (ip = <<>> \/ AllDigits(ip)) /\ (fp = <<>> \/ AllDigits(fp))
               /\ ~(ip = <<>> /\ fp = <<>>) /\ Len(fp) <= 2
              THEN Finite(DigitsVal(ip) * Scale
                          + (IF Len(fp) = 1 THEN 10 * DigitsVal(fp) ELSE DigitsVal(fp)))
              ELSE NaN
    ELSE NaN
ParseNumber(s) ==
  LET t == trim(s) IN
  IF t = <<>> THEN Finite(0)
  ELSE IF Head(t) = "-"
    THEN LET u == ParseUnsigned(Tail(t)) IN IF u.nan THEN NaN ELSE Finite(0 - u.n)
  ELSE IF Head(t) = "+" THEN ParseUnsigned(Tail(t))
  ELSE ParseUnsigned(t)

\* Number(x)
Number(c) ==
  CASE c.t = "num" -> Finite(c.n)
    [] c.t = "null" -> Finite(0)
    [] c.t = "undef" -> NaN
    [] c.t = "str" -> ParseNumber(c.s)
\* isNaN(x)
isNaN(c) == Number(c).nan

\* String(x) of a number: integer part, then the decimals without trailing zeros
NumToStr(h) ==
  LET a == IF h < 0 THEN 0 - h ELSE h
      ip == NatToStr(a \div Scale)
      f == a % Scale
      fp == IF f = 0 THEN <<>>
            ELSE IF f % 10 = 0 THEN <<".">> \o NatToStr(f \div 10)
            ELSE IF f < 10 THEN <<".", "0">> \o NatToStr(f)
            ELSE <<".">> \o NatToStr(f)
  IN (IF h < 0 THEN <<"-">> ELSE <<>>) \o ip \o fp
\* String(x)
String(c) ==
  CASE c.t = "num" -> NumToStr(c.n)
    [] c.t = "str" -> c.s
    [] c.t = "null" -> <<"n","u","l","l">>
    [] c.t = "undef" -> <<"u","n","d","e","f","i","n","e","d">>

(***************************************************************************)
(* Rows: ordered mappings from column name to cell (a JavaScript object    *)
(* keeps its keys in insertion order).  A row is a sequence of key/value   *)
(* pairs with distinct keys.                                               *)
(***************************************************************************)
KV(k, v) == [k |-> k, v |-> v]
HasKey(row, k) == \E i \in 1..Len(row) : row[i].k = k
\* row[k]
Get(row, k) ==
  IF HasKey(row, k) THEN row[CHOOSE i \in 1..Len(row) : row[i].k = k].v ELSE Undefined
\* row[k] = v
Put(row, k, v) ==
  IF HasKey(row, k)
    THEN [i \in 1..Len(row) |-> IF row[i].k = k THEN KV(k, v) ELSE row[i]]
    ELSE Append(row, KV(k, v))
\* the rows an array of references denotes in heap h
Rows(h, data) == [i \in 1..Len(data) |-> h[data[i]]]
\* the column of an array: data.map(row => row[header])
Column(h, data, header) == [i \in 1..Len(data) |-> Get(h[data[i]], header)]
\* the set of the elements of a sequence: new Set(values)
Range(seq) == {seq[i] : i \in 1..Len(seq)}
RECURSIVE Sum(_)
Sum(seq) == IF seq = <<>> THEN 0 ELSE Head(seq) + Sum(Tail(seq))

(***************************************************************************)
(* dataProcessingService.filterRows                                        *)
(***************************************************************************)
PossessivePrefixes ==
  { <<"c","u","s","t","o","m","e","r">>,
    <<"c","u","s","t","o","m","e","r","'">>,
    <<"c","u","s","t","o","m","e","r","s">>,
    <<"c","u","s","t","o","m","e","r","'","s">>,
    <<"t","h","e">>, <<"a">>, <<"a","n">> }
Prepositions ==
  { <<"o","f">>, <<"f","o","r">>, <<"i","n">>, <<"a","t">>, <<"o","n">> }

\* the leading run of non-space characters
RECURSIVE FirstWord(_)
FirstWord(s) ==
  IF s = <<>> \/ IsSpace(Head(s)) THEN <<>> ELSE <<Head(s)>> \o FirstWord(Tail(s))

\* s.replace(/^(customer'?s?|the|a|an)\s+/i, '') on a lower-case string
StripPossessive(s) ==
  LET w == FirstWord(s) IN
  IF w \in PossessivePrefixes /\ Len(w) < Len(s)
    THEN TrimStart(Drop(s, Len(w)))
    ELSE s

\* position i starts a match of /\s+(of|for|in|at|on)\s+/
PrepositionAt(s, i) ==
  /\ IsSpace(s[i])
  /\ LET rest == TrimStart(Drop(s, i - 1))
         w == FirstWord(rest)
     IN w \in Prepositions /\ Len(w) < Len(rest)
\* s.replace(/\s+(of|for|in|at|on)\s+/i, ' '): the leftmost match only
StripPreposition(s) ==
  IF \E i \in 1..Len(s) : PrepositionAt(s, i)
    THEN LET i == CHOOSE i \in 1..Len(s) :
                    PrepositionAt(s, i) /\ \A j \in 1..(i - 1) : ~PrepositionAt(s, j)
             rest == TrimStart(Drop(s, i - 1))
             w == FirstWord(rest)
         IN SubSeq(s, 1, i - 1) \o <<" ">> \o TrimStart(Drop(rest, Len(w)))
    ELSE s

\* s.replace(/\s+/g, r)
RECURSIVE ReplaceSpaces(_, _)
ReplaceSpaces(s, r) ==
  IF s = <<>> THEN <<>>
  ELSE IF IsSpace(Head(s)) THEN r \o ReplaceSpaces(TrimStart(s), r)
  ELSE <<Head(s)>> \o ReplaceSpaces(Tail(s), r)

NotFound == <<"\\null">>

\* Array.prototype.find over the headers, NotFound when no header passes
Find(headers, Test(_)) ==
  IF \E i \in 1..Len(headers) : Test(headers[i])
    THEN headers[CHOOSE i \in 1..Len(headers) :
                   Test(headers[i]) /\ \A j \in 1..(i - 1) : ~Test(headers[j])]
    ELSE NotFound
\* if (match) return match: a header found is returned unless it is the empty
\* string, which is falsy like the undefined of a find that found nothing
OrElse(a, b) == IF a # NotFound /\ a # <<>> THEN a ELSE b

\* the last stage of findColumn: the variations camelCase, snake_case and
\* PascalCase of the cleaned name, tried in this order, each compared in lower
\* case with the headers; the two lower-cased variations that follow find
\* nothing the first two did not
findVariant(headers, camelCase, snakeCase) ==
  OrElse(Find(headers, LAMBDA h : toLowerCase(h) = toLowerCase(camelCase)),
  OrElse(Find(headers, LAMBDA h : toLowerCase(h) = toLowerCase(snakeCase)),
  OrElse(Find(headers, LAMBDA h :
                toLowerCase(h) = toLowerCase(IF camelCase = <<>> THEN <<>>
                                             ELSE <<UpperChar(Head(camelCase))>>
                                                  \o Tail(camelCase))),
         NotFound)))
\* the stages of findColumn after the exact match
findClean(headers, lowerColumn, cleanColumn) ==
  OrElse(Find(headers, LAMBDA h : toLowerCase(h) = lowerColumn),
  OrElse(Find(headers, LAMBDA h : \/ includes(toLowerCase(h), cleanColumn)
                                  \/ includes(cleanColumn, toLowerCase(h))),
         findVariant(headers, ReplaceSpaces(cleanColumn, <<>>),
                     ReplaceSpaces(cleanColumn, <<"_">>))))
findLower(headers, lowerColumn) ==
  findClean(headers, lowerColumn, trim(StripPreposition(StripPossessive(lowerColumn))))

\* findColumnStr without the exact match
findColumnStrInsensitive(headers, columnName) ==
  IF columnName = <<>> THEN NotFound
  ELSE findLower(headers, trim(toLowerCase(columnName)))

\* findColumn(columnName) for a string columnName; NotFound stands for null
findColumnStr(headers, columnName) ==
  IF columnName = <<>> THEN NotFound
  ELSE IF Has(headers, columnName) THEN columnName
  ELSE findLower(headers, trim(toLowerCase(columnName)))

\* findColumn throws (columnName.toLowerCase is not a function) for a
\* truthy column that is no string
findColumnThrows(headers, column) == column.t = "num" /\ column.n # 0

\* findColumn for a column given as any value: a falsy one is not found
findColumn(headers, column) ==
  IF column.t = "str" THEN findColumnStr(headers, column.s) ELSE NotFound

(***************************************************************************)
(* new Date(x).getTime(): milliseconds since the epoch, or invalid.  A     *)
(* number is a time value, null is 0, undefined is invalid, a string       *)
(* YYYY-MM-DD is that calendar day (UTC).  ECMAScript leaves every other   *)
(* string format to the implementation; the conditions drawn below give    *)
(* date operators only such strings and strings without digits (invalid).  *)
(***************************************************************************)
InvalidDate == [valid |-> FALSE, day |-> 0, ms |-> 0]
DaysFromCivil(y, m, d) ==
  LET yy == IF m <= 2 THEN y - 1 ELSE y
      era == yy \div 400
      yoe == yy - era * 400
      mp == IF m > 2 THEN m - 3 ELSE m + 9
      doy == (153 * mp + 2) \div 5 + d - 1
      doe == yoe * 365 + yoe \div 4 - yoe \div 100 + doy
  IN era * 146097 + doe - 719468
IsIsoDate(s) ==
  /\ Len(s) = 10 /\ s[5] = "-" /\ s[8] = "-"
  /\ AllDigits(SubSeq(s, 1, 4)) /\ AllDigits(SubSeq(s, 6, 7)) /\ AllDigits(SubSeq(s, 9, 10))
  /\ DigitsVal(SubSeq(s, 6, 7)) \in 1..12 /\ DigitsVal(SubSeq(s, 9, 10)) \in 1..31
DateOf(c) ==
  CASE c.t = "num" -> [valid |-> TRUE, day |-> (c.n \div Scale) \div 86400000,
                       ms |-> (c.n \div Scale) % 86400000]
    [] c.t = "null" -> [valid |-> TRUE, day |-> 0, ms |-> 0]
    [] c.t = "undef" -> InvalidDate
    [] c.t = "str" ->
         IF IsIsoDate(c.s)
           THEN [valid |-> TRUE,
                 day |-> DaysFromCivil(DigitsVal(SubSeq(c.s, 1, 4)),
                                       DigitsVal(SubSeq(c.s, 6, 7)),
                                       DigitsVal(SubSeq(c.s, 9, 10))),
                 ms |-> 0]
           ELSE InvalidDate
\* d1 > d2 on two valid dates
After(d1, d2) == d1.day > d2.day \/ (d1.day = d2.day /\ d1.ms > d2.ms)

(***************************************************************************)
(* A condition {column, operator, value}: value is a scalar, or an array   *)
(* (isArray, with its elements in list).                                   *)
(***************************************************************************)
Cond(column, operator, value) ==
  [column |-> column, operator |-> operator, value |-> value, isArray |-> FALSE, list |-> <<>>]
CondIn(column, operator, list) ==
  [column |-> column, operator |-> operator, value |-> Undefined, isArray |-> TRUE, list |-> list]

\* a % 2 on a fixed-point number: the remainder keeps the sign of a
Mod2(h) == IF h >= 0 THEN h % (2 * Scale) ELSE 0 - ((0 - h) % (2 * Scale))

\* Number(v) === Number(cellValue)
SameNumber(nv, nc) == ~nv.nan /\ ~nc.nan /\ nv.n = nc.n
\* value.some(v => Number(v) === Number(cellValue) || String(v).toLowerCase() === String(cellValue).toLowerCase())
SomeEqual(list, cellValue) ==
  \E i \in 1..Len(list) :
    \/ SameNumber(Number(list[i]), Number(cellValue))
    \/ toLowerCase(String(list[i])) = toLowerCase(String(cellValue))

\* the switch of evaluateCondition on the operator: cellValue and value, their
\* numbers (nc, nv), lower-case strings (lc, lv) and dates (d1, d2)
compare(condition, cellValue, nc, nv, lc, lv, d1, d2) ==
  CASE condition.operator = "gt" -> ~nc.nan /\ ~nv.nan /\ nc.n > nv.n
    [] condition.operator = "lt" -> ~nc.nan /\ ~nv.nan /\ nc.n < nv.n
    [] condition.operator = "eq" -> lc = lv
    [] condition.operator = "ne" -> lc # lv
    [] condition.operator = "gte" -> ~nc.nan /\ ~nv.nan /\ nc.n >= nv.n
    [] condition.operator = "lte" -> ~nc.nan /\ ~nv.nan /\ nc.n <= nv.n
    [] condition.operator = "in" -> condition.isArray /\ SomeEqual(condition.list, cellValue)
    [] condition.operator = "not_in" -> condition.isArray /\ ~SomeEqual(condition.list, cellValue)
    [] condition.operator = "contains" -> includes(lc, lv)
    [] condition.operator = "not_contains" -> ~includes(lc, lv)
    [] condition.operator = "odd" -> ~nc.nan /\ Mod2(nc.n) # 0
    [] condition.operator = "even" -> ~nc.nan /\ Mod2(nc.n) = 0
    [] condition.operator = "date_after" -> d1.valid /\ d2.valid /\ After(d1, d2)
    [] condition.operator = "date_before" -> d1.valid /\ d2.valid /\ After(d2, d1)
    [] OTHER -> FALSE

\* evaluateCondition once the cell is read
evaluateCell(condition, cellValue) ==
  compare(condition, cellValue, Number(cellValue), Number(condition.value),
          toLowerCase(String(cellValue)), toLowerCase(String(condition.value)),
          DateOf(cellValue), DateOf(condition.value))

\* evaluateResolved without the test of the resolution: the cell of a column
\* that is not found is read, and is undefined
evaluateUnresolved(row, condition, actualColumn) ==
  evaluateCell(condition, IF actualColumn = NotFound THEN Undefined ELSE Get(row, actualColumn))

\* evaluateCondition once the column is resolved
evaluateResolved(row, condition, actualColumn) ==
  IF actualColumn = NotFound THEN FALSE ELSE evaluateCell(condition, Get(row, actualColumn))

\* evaluateCondition(row, condition): does the row satisfy the condition
evaluateCondition(headers, row, condition) ==
  evaluateResolved(row, condition, findColumn(headers, condition.column))

\* the change log of a handler: its fields in order, a count or a list of
\* columns each; {} is the empty sequence
Field(f, n) == [f |-> f, n |-> n, cols |-> <<>>]
FieldCols(f, cols) == [f |-> f, n |-> 0, cols |-> cols]

\* what a service function hands back: the heap after its in-place writes,
\* the returned array, its change log, or the fault it threw
Returned(h, data, changes) ==
  [threw |-> FALSE, error |-> "", heap |-> h, data |-> data, changes |-> changes]
Threw(h, error) ==
  [threw |-> TRUE, error |-> error, heap |-> h, data |-> <<>>, changes |-> <<>>]

\* a filter parameter object {conditions, logic}
Params(conditions, logic, strategy) ==
  [conditions |-> conditions, logic |-> logic, strategy |-> strategy]
FilterParams(conditions, logic) == Params(conditions, logic, "")
\* the parameter object {strategy}
StrategyParams(strategy) == Params(<<>>, "AND", strategy)
NoParams == FilterParams(<<>>, "AND")

\* KeptRows keeping the rows that match
KeptRowsMatching(h, data, headers, conditions, logic) ==
  {i \in 1..Len(data) :
     IF logic = "OR" /\ Len(conditions) > 1
       THEN \E c \in 1..Len(conditions) : evaluateCondition(headers, h[data[i]], conditions[c])
       ELSE \A c \in 1..Len(conditions) : evaluateCondition(headers, h[data[i]], conditions[c])}

\* the rows filterRows keeps: under OR with more than one condition those that
\* match no condition, otherwise those that do not match every condition
KeptRows(h, data, headers, conditions, logic) ==
  {i \in 1..Len(data) :
     IF logic = "OR" /\ Len(conditions) > 1
       THEN ~\E c \in 1..Len(conditions) : evaluateCondition(headers, h[data[i]], conditions[c])
       ELSE ~\A c \in 1..Len(conditions) : evaluateCondition(headers, h[data[i]], conditions[c])}

\* the result of filterRows for the rows it keeps
Filtered(h, data, filteredData) ==
  Returned(h, filteredData, <<Field("rowsRemoved", Len(data) - Len(filteredData)),
                              Field("originalCount", Len(data))>>)

\* filterRows(data, headers, filterParams): the rows that match are removed
filterRows(h, data, headers, filterParams) ==
  IF Len(filterParams.conditions) = 0
    THEN Returned(h, data, <<Field("rowsRemoved", 0), Field("originalCount", Len(data))>>)
  ELSE IF \E c \in 1..Len(filterParams.conditions) :
            findColumnThrows(headers, filterParams.conditions[c].column)
    THEN Threw(h, "columnName.toLowerCase is not a function")
  ELSE Filtered(h, data,
                SelectIdx(data, KeptRows(h, data, headers, filterParams.conditions,
                                         filterParams.logic), 1))

(***************************************************************************)
(* dataProcessingService.detectColumnTypes                                 *)
(***************************************************************************)
CategoricalMaxUnique == 20

\* /^\d{1,4}[-/]\d{1,2}[-/]\d{1,4}$/.test(s)
IsSep(c) == c = "-" \/ c = "/"
datePattern(s) ==
  \E i, j \in 1..Len(s) :
    /\ i < j /\ IsSep(s[i]) /\ IsSep(s[j])
    /\ AllDigits(SubSeq(s, 1, i - 1)) /\ i - 1 <= 4
    /\ AllDigits(SubSeq(s, i + 1, j - 1)) /\ j - i - 1 <= 2
    /\ AllDigits(SubSeq(s, j + 1, Len(s))) /\ Len(s) - j <= 4

\* the cells of a column that are not null, undefined or ''
NonEmptyValues(h, data, header) == SelectSeq(Column(h, data, header), NonEmpty)

\* ColumnType with the categorical check made before the number check
ColumnTypeCategoricalFirst(values) ==
  IF Len(values) = 0 THEN "empty"
  ELSE IF 2 * Cardinality(Range(values)) < Len(values)
          /\ Cardinality(Range(values)) < CategoricalMaxUnique THEN "categorical"
  ELSE IF \A i \in 1..Len(values) : ~isNaN(values[i]) THEN "number"
  ELSE IF \A i \in 1..Len(values) : datePattern(String(values[i])) THEN "date"
  ELSE "text"

\* the type of one column from its non-empty values
ColumnType(values) ==
  IF Len(values) = 0 THEN "empty"
  ELSE IF \A i \in 1..Len(values) : ~isNaN(values[i]) THEN "number"
  ELSE IF \A i \in 1..Len(values) : datePattern(String(values[i])) THEN "date"
  ELSE IF 2 * Cardinality(Range(values)) < Len(values)
          /\ Cardinality(Range(values)) < CategoricalMaxUnique THEN "categorical"
  ELSE "text"

\* detectColumnTypes(data, headers): header -> type
detectColumnTypes(h, data, headers) ==
  [hd \in Range(headers) |-> ColumnType(NonEmptyValues(h, data, hd))]

(***************************************************************************)
(* dataProcessingService.removeDuplicates                                  *)
(***************************************************************************)
\* JSON.stringify(row): the keys in insertion order, undefined values left out
stringify(row) == SelectSeq(row, LAMBDA kv : kv.v.t # "undef")

\* FirstOccurrences keeping the last row of every serialization
LastOccurrences(h, data) ==
  {i \in 1..Len(data) :
     \A j \in (i + 1)..Len(data) : stringify(h[data[j]]) # stringify(h[data[i]])}

\* the indices of the rows whose serialization no earlier row has
FirstOccurrences(h, data) ==
  {i \in 1..Len(data) : \A j \in 1..(i - 1) : stringify(h[data[j]]) # stringify(h[data[i]])}

\* the result of removeDuplicates for the rows it keeps
Deduplicated(h, data, cleanData) ==
  Returned(h, cleanData, <<Field("duplicatesRemoved", Len(data) - Len(cleanData))>>)

\* removeDuplicates(data): the first row of every serialization is kept
removeDuplicates(h, data) ==
  Deduplicated(h, data, SelectIdx(data, FirstOccurrences(h, data), 1))

(***************************************************************************)
(* dataProcessingService.handleMissingValues                               *)
(***************************************************************************)
\* Math.round(sum / count * 100) / 100 on fixed-point numbers
RoundedMean(sum, count) == (2 * sum + count) \div (2 * count)

\* the distinct elements of a sequence, by first occurrence
RECURSIVE Distinct(_)
Distinct(seq) ==
  IF seq = <<>> THEN <<>>
  ELSE LET d == Distinct(SubSeq(seq, 1, Len(seq) - 1))
       IN IF Has(d, seq[Len(seq)]) THEN d ELSE Append(d, seq[Len(seq)])
\* a key that is an array index: a canonical decimal numeral
IsIndexKey(k) == AllDigits(k) /\ (Len(k) = 1 \/ Head(k) # "0")
\* Object.keys(frequency): index keys in ascending order, then the other keys
\* in insertion order
ObjectKeys(inserted) ==
  LET d == Distinct(inserted)
      idx == SelectSeq(d, IsIndexKey)
      rest == SelectSeq(d, LAMBDA k : ~IsIndexKey(k))
  IN SortSeq(idx, LAMBDA a, b : DigitsVal(a) < DigitsVal(b)) \o rest
Count(seq, x) == Cardinality({i \in 1..Len(seq) : seq[i] = x})
\* keys.reduce((a, b) => frequency[a] > frequency[b] ? a : b)
RECURSIVE ReduceMode(_, _, _)
ReduceMode(keys, all, a) ==
  IF keys = <<>> THEN a
  ELSE ReduceMode(Tail(keys), all, IF Count(all, a) > Count(all, Head(keys)) THEN a ELSE Head(keys))
\* the most frequent value among the keys String(val) of a column
ModeOf(all) == ReduceMode(Tail(ObjectKeys(all)), all, Head(ObjectKeys(all)))
Mode(values) == ModeOf([i \in 1..Len(values) |-> String(values[i])])

\* the value handleMissingValues writes into the missing cells of a column
fillValue(type, values) ==
  IF type = "number"
    THEN Fix(RoundedMean(Sum([i \in 1..Len(values) |-> Number(values[i]).n]), Len(values)))
    ELSE Str(Mode(values))

\* data.forEach(row => { if (row[header] is missing) row[header] = fillValue })
FillColumn(h, data, header, v) ==
  [id \in DOMAIN h |->
     IF Has(data, id) /\ ~NonEmpty(Get(h[id], header)) THEN Put(h[id], header, v) ELSE h[id]]
MissingCount(h, data, header) ==
  Cardinality({i \in 1..Len(data) : ~NonEmpty(Get(h[data[i]], header))})

\* the change log of handleMissingValues
MissingChanges(rowsRemoved, valuesFilled, columnsAffected) ==
  <<Field("rowsRemoved", rowsRemoved), Field("valuesFilled", valuesFilled),
    FieldCols("columnsAffected", columnsAffected)>>

\* the fill branch, column by column from header index c: the heap and the
\* change log after the remaining columns
RECURSIVE FillFrom(_, _, _, _, _, _)
FillFrom(h, data, headers, types, c, changes) ==
  IF c > Len(headers) THEN Returned(h, data, changes)
  ELSE IF Len(NonEmptyValues(h, data, headers[c])) = 0 \/ MissingCount(h, data, headers[c]) = 0
    THEN FillFrom(h, data, headers, types, c + 1, changes)
  ELSE FillFrom(FillColumn(h, data, headers[c],
                           fillValue(types[headers[c]], NonEmptyValues(h, data, headers[c]))),
                data, headers, types, c + 1,
                MissingChanges(0, changes[2].n + MissingCount(h, data, headers[c]),
                               Append(changes[3].cols, headers[c])))

\* the rows with no missing value in any header
CompleteRows(h, data, headers) ==
  {i \in 1..Len(data) : \A c \in 1..Len(headers) : NonEmpty(Get(h[data[i]], headers[c]))}
\* the result of the remove branch for the rows it keeps
Removed(h, data, cleanData) ==
  Returned(h, cleanData, MissingChanges(Len(data) - Len(cleanData), 0, <<>>))

\* handleMissingValues(data, headers, strategy)
handleMissingValues(h, data, headers, strategy) ==
  IF strategy = "remove"
    THEN Removed(h, data, SelectIdx(data, CompleteRows(h, data, headers), 1))
  ELSE IF strategy = "fill"
    THEN FillFrom(h, data, headers, detectColumnTypes(h, data, headers), 1,
                  MissingChanges(0, 0, <<>>))
  ELSE Returned(h, data, MissingChanges(0, 0, <<>>))

(***************************************************************************)
(* dataProcessingService.removeOutliers                                    *)
(***************************************************************************)
\* the numbers of a sequence of Number() results, NaN left out, ascending
SortedNumbers(nums) ==
  SortSeq([i \in 1..Len(SelectSeq(nums, LAMBDA x : ~x.nan)) |->
             SelectSeq(nums, LAMBDA x : ~x.nan)[i].n],
          LAMBDA a, b : a < b)
\* Within with strict comparisons
WithinStrictly(nums, q1, q3) ==
  {i \in 1..Len(nums) :
     /\ ~nums[i].nan
     /\ 2 * nums[i].n > 2 * q1 - 3 * (q3 - q1)
     /\ 2 * nums[i].n < 2 * q3 + 3 * (q3 - q1)}
\* the rows within [q1 - 1.5*iqr, q3 + 1.5*iqr].  Bounds are compared doubled,
\* 2*v against 2*q1 - 3*iqr and 2*q3 + 3*iqr, to stay in the integers
Within(nums, q1, q3) ==
  {i \in 1..Len(nums) :
     /\ ~nums[i].nan
     /\ 2 * nums[i].n >= 2 * q1 - 3 * (q3 - q1)
     /\ 2 * nums[i].n <= 2 * q3 + 3 * (q3 - q1)}
\* q1 and q3 are the sorted values at floor(n * 0.25) and floor(n * 0.75)
WithinQuartiles(nums, values) ==
  IF Len(values) = 0 THEN 1..Len(nums)
  ELSE Within(nums, values[(Len(values) \div 4) + 1], values[((3 * Len(values)) \div 4) + 1])
ColumnNumbers(h, data, column) == [i \in 1..Len(data) |-> Number(Get(h[data[i]], column))]
\* the IQR filter of one column: the rows kept
OutlierKeep(h, data, column) ==
  WithinQuartiles(ColumnNumbers(h, data, column), SortedNumbers(ColumnNumbers(h, data, column)))

RECURSIVE OutliersFrom(_, _, _, _, _)
\* the loop body of removeOutliers once the rows kept by the column are known
OutliersNext(h, data, columns, removed, affected, kept) ==
  OutliersFrom(h, kept, Tail(columns), removed + (Len(data) - Len(kept)),
               IF Len(kept) < Len(data) THEN Append(affected, Head(columns)) ELSE affected)
OutliersFrom(h, data, columns, removed, affected) ==
  IF columns = <<>>
    THEN Returned(h, data, <<Field("outliersRemoved", removed),
                              FieldCols("affectedColumns", affected)>>)
    ELSE OutliersNext(h, data, columns, removed, affected,
                      SelectIdx(data, OutlierKeep(h, data, Head(columns)), 1))

\* the headers of a given type
ColumnsOfType(headers, columnTypes, type) == SelectSeq(headers, LAMBDA hd : columnTypes[hd] = type)

\* removeOutliers(data, headers): the number columns of the input, in header
\* order, each filtering the rows the previous ones left
removeOutliers(h, data, headers) ==
  OutliersFrom(h, data,
               ColumnsOfType(headers, detectColumnTypes(h, data, headers), "number"), 0, <<>>)

(***************************************************************************)
(* dataProcessingService.standardizeFormats                                *)
(***************************************************************************)
StandardizeMaxUnique == 20

\* row[header] = trimmed.toLowerCase() when the column has, at that moment,
\* fewer than StandardizeMaxUnique distinct values
LowerCased(h, data, header, id, trimmed) ==
  IF Cardinality(Range(Column(h, data, header))) < StandardizeMaxUnique
    THEN [h EXCEPT ![id] = Put(h[id], header, Str(toLowerCase(trimmed)))]
    ELSE h
\* row[header] = trimmed when trimming changed the string
Trimmed(h, header, id, s, trimmed) ==
  IF trimmed # s THEN [h EXCEPT ![id] = Put(h[id], header, Str(trimmed))] ELSE h

\* the inner loop for one header from row index i: the heap and the headers
\* in which a cell was trimmed
RECURSIVE StandardizeRows(_, _, _, _, _)
StandardizeCell(h, data, header, i, changes, s, trimmed) ==
  StandardizeRows(LowerCased(Trimmed(h, header, data[i], s, trimmed), data, header, data[i], trimmed),
                  data, header, i + 1,
                  IF trimmed # s /\ ~Has(changes, header) THEN Append(changes, header) ELSE changes)
StandardizeRows(h, data, header, i, changes) ==
  IF i > Len(data) THEN [heap |-> h, changes |-> changes]
  ELSE IF Get(h[data[i]], header).t = "str"
    THEN StandardizeCell(h, data, header, i, changes, Get(h[data[i]], header).s,
                         trim(Get(h[data[i]], header).s))
  ELSE StandardizeRows(h, data, header, i + 1, changes)

RECURSIVE StandardizeFrom(_, _, _, _, _)
StandardizeNext(data, headers, c, r) == StandardizeFrom(r.heap, data, headers, c + 1, r.changes)
StandardizeFrom(h, data, headers, c, changes) ==
  IF c > Len(headers) THEN Returned(h, data, changes)
  ELSE StandardizeNext(data, headers, c, StandardizeRows(h, data, headers[c], 1, changes))

\* standardizeFormats(data, headers): writes the rows in place; its changes
\* are the headers in which a cell was trimmed
standardizeFormats(h, data, headers) == StandardizeFrom(h, data, headers, 1, <<>>)

(***************************************************************************)
(* operationRegistry: the handlers registered by registerDefaultOperations *)
(***************************************************************************)
FILTER_ROWS == <<"f","i","l","t","e","r","_","r","o","w","s">>
REMOVE_DUPLICATES == <<"r","e","m","o","v","e","_","d","u","p","l","i","c","a","t","e","s">>
FILL_MISSING == <<"f","i","l","l","_","m","i","s","s","i","n","g">>
REMOVE_OUTLIERS == <<"r","e","m","o","v","e","_","o","u","t","l","i","e","r","s">>
STANDARDIZE == <<"s","t","a","n","d","a","r","d","i","z","e">>
CLEAN == <<"c","l","e","a","n">>
ANALYZE == <<"a","n","a","l","y","z","e">>

\* the names registered, in registration order
RegisteredNames ==
  <<FILTER_ROWS, REMOVE_DUPLICATES, FILL_MISSING, REMOVE_OUTLIERS, STANDARDIZE, CLEAN, ANALYZE>>

\* operationRegistry.get(name) is defined
has(name) == Has(RegisteredNames, name)

(***************************************************************************)
(* dataProcessingService.getStatistics and getTopValues                    *)
(***************************************************************************)
\* the cells of a column that are not null or undefined
PresentValues(h, data, header) ==
  SelectSeq(Column(h, data, header), LAMBDA v : v.t \notin {"null", "undef"})

\* getTopValues(values, n): the entries of the frequency object sorted by
\* descending count (the sort is stable), the first n of them
TopRank(keys, all, k) ==
  Cardinality({j \in 1..Len(keys) :
                 \/ Count(all, keys[j]) > Count(all, keys[k])
                 \/ (Count(all, keys[j]) = Count(all, keys[k]) /\ j < k)})
TopOf(keys, all, n) ==
  [r \in 1..(IF Len(keys) < n THEN Len(keys) ELSE n) |->
     [value |-> keys[CHOOSE k \in 1..Len(keys) : TopRank(keys, all, k) = r - 1],
      count |-> Count(all, keys[CHOOSE k \in 1..Len(keys) : TopRank(keys, all, k) = r - 1])]]
getTopValues(values, n) ==
  TopOf(ObjectKeys([k \in 1..Len(values) |-> String(values[k])]),
        [k \in 1..Len(values) |-> String(values[k])], n)

\* the statistics of a number column from its sorted numbers
NumberStats(type, count, missing, sorted) ==
  [type |-> type, count |-> count, missing |-> missing,
   min |-> sorted[1], max |-> sorted[Len(sorted)],
   mean |-> RoundedMean(Sum(sorted), Len(sorted)),
   median |-> sorted[(Len(sorted) \div 2) + 1],
   uniqueValues |-> 0, topValues |-> <<>>]
\* the statistics of one column: stats[header]
ColumnStats(type, values, total) ==
  IF type = "number"
    THEN NumberStats(type, Len(values), total - Len(values),
                     SortedNumbers([k \in 1..Len(values) |-> Number(values[k])]))
    ELSE [type |-> type, count |-> Len(values), missing |-> total - Len(values),
          min |-> 0, max |-> 0, mean |-> 0, median |-> 0,
          uniqueValues |-> IF type \in {"categorical", "text"}
                             THEN Cardinality(Range(values)) ELSE 0,
          topValues |-> IF type \in {"categorical", "text"}
                          THEN getTopValues(values, 5) ELSE <<>>]

\* getStatistics with the column types detected
StatisticsOf(h, data, headers, columnTypes) ==
  [hd \in Range(headers) |->
     ColumnStats(columnTypes[hd], PresentValues(h, data, hd), Len(data))]
\* getStatistics(data, headers): header -> statistics
getStatistics(h, data, headers) ==
  StatisticsOf(h, data, headers, detectColumnTypes(h, data, headers))

(***************************************************************************)
(* dataProcessingService.calculateQualityScore.  The score is kept as an   *)
(* exact fraction num/den, den > 0; an issue is kept without its message.  *)
(***************************************************************************)
Fraction(num, den) == [num |-> num, den |-> den]
\* f - n/d
Minus(f, n, d) == Fraction(f.num * d - n * f.den, f.den * d)
Issue(type, column, severity) == [type |-> type, column |-> column, severity |-> severity]
\* score -= n/d; issues.push(issue)
Deduct(acc, n, d, issue) ==
  [score |-> Minus(acc.score, n, d), issues |-> Append(acc.issues, issue)]

\* the missing values of one header: missingPercentage * 0.5 is 50*missing/total
MissingIssue(acc, header, missing, total) ==
  IF total > 0 /\ missing > 0
    THEN Deduct(acc, 50 * missing, total,
                Issue("missing_values", header,
                      IF 100 * missing > 20 * total THEN "high"
                      ELSE IF 100 * missing > 10 * total THEN "medium" ELSE "low"))
    ELSE acc
RECURSIVE MissingIssues(_, _, _, _, _)
MissingIssues(acc, headers, statistics, total, k) ==
  IF k > Len(headers) THEN acc
  ELSE MissingIssues(MissingIssue(acc, headers[k], statistics[headers[k]].missing, total),
                     headers, statistics, total, k + 1)

\* the duplicates: duplicatePercentage * 0.3 is 30*removed/total
DuplicateIssue(acc, removed, total) ==
  IF total > 0 /\ removed > 0
    THEN Deduct(acc, 30 * removed, total,
                Issue("duplicates", <<>>, IF 100 * removed > 10 * total THEN "high" ELSE "medium"))
    ELSE acc

\* the outliers of one number header: outlierPercentage * 0.2 is
\* 20*outliers/values, taken off when the percentage is above 5
OutlierIssue(acc, header, outliers, count) ==
  IF count > 0 /\ 100 * outliers > 5 * count
    THEN Deduct(acc, 20 * outliers, count,
                Issue("outliers", header,
                      IF 100 * outliers > 15 * count THEN "high" ELSE "medium"))
    ELSE acc
\* the values outside the bounds among the numbers of a column
OutlierCount(nums, sorted) == Len(sorted) - Cardinality(WithinQuartiles(nums, sorted))
RECURSIVE OutlierIssues(_, _, _, _, _)
OutlierIssues(acc, h, data, numericHeaders, k) ==
  IF k > Len(numericHeaders) THEN acc
  ELSE OutlierIssues(
         OutlierIssue(acc, numericHeaders[k],
                      OutlierCount(ColumnNumbers(h, data, numericHeaders[k]),
                                   SortedNumbers(ColumnNumbers(h, data, numericHeaders[k]))),
                      Len(SortedNumbers(ColumnNumbers(h, data, numericHeaders[k])))),
         h, data, numericHeaders, k + 1)

\* the typeof of the values of a column
TypesOf(values) == {values[k].t : k \in 1..Len(values)}
\* the mixed types of one header
TypeIssue(acc, header, types, type) ==
  IF Cardinality(types) > 1 /\ type = "number"
    THEN Deduct(acc, 5, 1, Issue("type_inconsistency", header, "medium"))
    ELSE acc
RECURSIVE TypeIssues(_, _, _, _, _, _)
TypeIssues(acc, h, data, headers, statistics, k) ==
  IF k > Len(headers) THEN acc
  ELSE TypeIssues(TypeIssue(acc, headers[k], TypesOf(PresentValues(h, data, headers[k])),
                            statistics[headers[k]].type),
                  h, data, headers, statistics, k + 1)

\* Math.max(0, Math.min(100, score))
Clamp(f) ==
  IF f.num < 0 THEN Fraction(0, 1)
  ELSE IF f.num > 100 * f.den THEN Fraction(100, 1)
  ELSE f
\* Math.round(score) of a score that is not negative
Round(f) == (2 * f.num + f.den) \div (2 * f.den)
\* the grade of the clamped score
Grade(f) ==
  IF f.num >= 90 * f.den THEN "A"
  ELSE IF f.num >= 75 * f.den THEN "B"
  ELSE IF f.num >= 60 * f.den THEN "C"
  ELSE IF f.num >= 40 * f.den THEN "D"
  ELSE "F"
\* what calculateQualityScore returns
Quality(score, issues) ==
  [score |-> Round(score), grade |-> Grade(score), issues |-> issues,
   totalIssues |-> Len(issues)]
QualityOf(acc) == Quality(Clamp(acc.score), acc.issues)

\* calculateQualityScore(data, headers, statistics)
calculateQualityScore(h, data, headers, statistics) ==
  QualityOf(
    TypeIssues(
      OutlierIssues(
        DuplicateIssue(
          MissingIssues([score |-> Fraction(100, 1), issues |-> <<>>], headers, statistics,
                        Len(data), 1),
          Len(data) - Cardinality(FirstOccurrences(h, data)), Len(data)),
        h, data, SelectSeq(headers, LAMBDA hd : statistics[hd].type = "number"), 1),
      h, data, headers, statistics, 1))

\* the analyze handler with the rows standardized
analyzeStandardizing(h, data, headers, statistics) ==
  Returned(standardizeFormats(h, data, headers).heap, data, <<>>)
\* the analyze handler: the statistics are computed, the data are returned
analyzeHandler(h, data, headers, statistics) == Returned(h, data, <<>>)
\* the remove_outliers handler: the statistics are computed, then the outliers
\* removed
outliersHandler(h, data, headers, statistics) == removeOutliers(h, data, headers)

\* the clean handler: removeDuplicates, handleMissingValues 'remove',
\* standardizeFormats, one after the other, and the three counts
cleanFormat(dupResult, missingResult, formatResult) ==
  Returned(formatResult.heap, formatResult.data,
           <<Field("duplicatesRemoved", dupResult.changes[1].n),
             Field("rowsRemoved", missingResult.changes[1].n),
             Field("columnsStandardized", Len(formatResult.changes))>>)
cleanMissing(headers, dupResult, missingResult) ==
  cleanFormat(dupResult, missingResult,
              standardizeFormats(missingResult.heap, missingResult.data, headers))
\* cleanDup with the missing values filled
cleanDupFilling(headers, dupResult) ==
  cleanMissing(headers, dupResult,
               handleMissingValues(dupResult.heap, dupResult.data, headers, "fill"))
cleanDup(headers, dupResult) ==
  cleanMissing(headers, dupResult,
               handleMissingValues(dupResult.heap, dupResult.data, headers, "remove"))
cleanHandler(h, data, headers) == cleanDup(headers, removeDuplicates(h, data))

\* the standardize handler: the changed headers as columnsAffected
standardizeHandler(result) ==
  Returned(result.heap, result.data, <<FieldCols("columnsAffected", result.changes)>>)

\* op.handler(data, headers, params) of the registered operation name
handler(name, h, data, headers, params) ==
  CASE name = FILTER_ROWS -> filterRows(h, data, headers, params)
    [] name = REMOVE_DUPLICATES -> removeDuplicates(h, data)
    [] name = FILL_MISSING -> handleMissingValues(h, data, headers, "fill")
    [] name = REMOVE_OUTLIERS ->
         outliersHandler(h, data, headers, getStatistics(h, data, headers))
    [] name = STANDARDIZE -> standardizeHandler(standardizeFormats(h, data, headers))
    [] name = CLEAN -> cleanHandler(h, data, headers)
    [] name = ANALYZE -> analyzeHandler(h, data, headers, getStatistics(h, data, headers))

(***************************************************************************)
(* dataController.normalizeOperation                                       *)
(***************************************************************************)
operationMap ==
  { <<<<"c","l","e","a","n">>, CLEAN>>,
    <<<<"c","l","e","a","n","_","d","a","t","a">>, CLEAN>>,
    <<<<"c","l","e","a","n","_","t","h","i","s","_","d","a","t","a">>, CLEAN>>,
    <<<<"c","l","e","a","n","u","p">>, CLEAN>>,
    <<<<"r","e","m","o","v","e","_","d","u","p","l","i","c","a","t","e","s">>, REMOVE_DUPLICATES>>,
    <<<<"r","e","m","o","v","e","_","d","u","p","l","i","c","a","t","e">>, REMOVE_DUPLICATES>>,
    <<<<"d","u","p","l","i","c","a","t","e","s">>, REMOVE_DUPLICATES>>,
    <<<<"f","i","l","l","_","m","i","s","s","i","n","g">>, FILL_MISSING>>,
    <<<<"h","a","n","d","l","e","_","m","i","s","s","i","n","g">>, FILL_MISSING>>,
    <<<<"f","i","l","l","_","m","i","s","s","i","n","g","_","v","a","l","u","e","s">>, FILL_MISSING>>,
    <<<<"m","i","s","s","i","n","g">>, FILL_MISSING>>,
    <<<<"r","e","m","o","v","e","_","o","u","t","l","i","e","r","s">>, REMOVE_OUTLIERS>>,
    <<<<"o","u","t","l","i","e","r","s">>, REMOVE_OUTLIERS>>,
    <<<<"s","t","a","n","d","a","r","d","i","z","e">>, STANDARDIZE>>,
    <<<<"s","t","a","n","d","a","r","d","i","z","e","_","f","o","r","m","a","t","s">>, STANDARDIZE>>,
    <<<<"f","o","r","m","a","t">>, STANDARDIZE>>,
    <<<<"a","n","a","l","y","z","e">>, ANALYZE>>,
    <<<<"s","t","a","t","s">>, ANALYZE>>,
    <<<<"s","t","a","t","i","s","t","i","c","s">>, ANALYZE>>,
    <<<<"s","h","o","w","_","s","t","a","t","s">>, ANALYZE>>,
    <<<<"f","i","l","t","e","r","_","r","o","w","s">>, FILTER_ROWS>>,
    <<<<"f","i","l","t","e","r">>, FILTER_ROWS>>,
    <<<<"r","e","m","o","v","e","_","r","o","w","s">>, FILTER_ROWS>>,
    <<<<"d","e","l","e","t","e","_","r","o","w","s">>, FILTER_ROWS>> }

UNKNOWN == <<"u","n","k","n","o","w","n">>

\* normalizeOperation(operation): lower case, trimmed, runs of whitespace
\* turned into '_', then the alias table; a missing name is 'unknown'
normalizeOperation(operation) ==
  LET normalized == ReplaceSpaces(trim(toLowerCase(operation)), <<"_">>)
  IN IF operation = <<>> THEN UNKNOWN
     ELSE IF \E e \in operationMap : e[1] = normalized
       THEN (CHOOSE e \in operationMap : e[1] = normalized)[2]
       ELSE normalized

(***************************************************************************)
(* Errors and suggestions.  A message is its fixed text (kind), the value  *)
(* interpolated into it (arg) and, for `Step k failed: ...`, the step k    *)
(* put in front of it (0: no such prefix).                                 *)
(***************************************************************************)
Err(kind, arg) == [kind |-> kind, arg |-> arg, step |-> 0]
NoError == Err("", <<>>)
Suggestion(text, names) == [text |-> text, names |-> names]
NoSuggestion == Suggestion("", <<>>)

\* a call made outside the controller: a registry handler, the evaluation of
\* the wrapped code, the snippet's own function
Call(fn, name) == [fn |-> fn, name |-> name]

\* the result object of executeOperation, executeCode and executeChain, with
\* the heap after the call and the outside calls made during it
Result(success, error, suggestion, h, data, headers, changes, calls) ==
  [success |-> success, error |-> error, suggestion |-> suggestion, heap |-> h,
   data |-> data, headers |-> headers, changes |-> changes, calls |-> calls]

(***************************************************************************)
(* codeExecutorService.  A snippet is the sequence of its lexical pieces.  *)
(* Pieces of the denylist are the texts validateCode looks for.  The other *)
(* pieces are statements:                                                  *)
(*   BREAK          }); var utils; (function (data, headers, utils) {      *)
(*   SET            data.forEach(r => { r[headers[0]] = 'x'; });           *)
(*   THROW          throw new Error('boom');                               *)
(*   RETURN_ALL     return { data, headers, changes: { rows: data.length } *)
(*   RETURN_TAIL    return { data: data.slice(1), headers };               *)
(*   RETURN_NULL    return null;                                           *)
(*   RETURN_SCALAR  return { data: 'none' };                               *)
(*   RETURN_BARE    return { data };                                       *)
(***************************************************************************)
dangerousPatterns ==
  <<"require(", "import ", "process.", "global.", "__dirname", "__filename", "eval(",
    "Function(", "setTimeout", "setInterval", "fs.", "child_process", "exec(">>

\* validateCode(code): the first pattern of the denylist the text matches
validateCode(code) ==
  LET Matches(p) == Has(code, p)
      first == FirstIdx(dangerousPatterns, Matches)
  IN IF first # 0
       THEN [valid |-> FALSE,
             error |-> Err("Code contains potentially dangerous pattern: ",
                           <<dangerousPatterns[first]>>)]
       ELSE [valid |-> TRUE, error |-> NoError]

\* JSON.parse(JSON.stringify(data)): a copy of every row, keys with an
\* undefined value left out
DeepClone(h, data) == [i \in 1..Len(data) |-> stringify(h[data[i]])]

\* Object.keys(row)
Keys(row) == [i \in 1..Len(row) |-> row[i].k]

\* The wrapped code  (function(data, headers, utils) { <code> })(data, headers, utils)
\* is evaluated by a direct eval in the scope of executeCode(code, data,
\* headers).  Its arguments are looked up in that scope: data and headers are
\* the parameters of executeCode, and utils is bound nowhere unless the
\* snippet text closes the wrapper and declares it (BREAK).  The statements
\* that run are those after the last BREAK.
BindsUtils(code) == Has(code, "BREAK")
Body(code) ==
  IF BindsUtils(code)
    THEN Drop(code, CHOOSE i \in 1..Len(code) :
                      code[i] = "BREAK" /\ \A j \in (i + 1)..Len(code) : code[j] # "BREAK")
    ELSE code

\* what the evaluation yields: the heap after the statements' writes, and the
\* value returned or the fault thrown
Eval(h, out, error) == [heap |-> h, out |-> out, error |-> error]
RECURSIVE Run(_, _, _, _)
Run(body, h, data, headers) ==
  IF body = <<>> THEN Eval(h, "undefined", NoError)
  ELSE CASE Head(body) = "SET" ->
              Run(Tail(body),
                  IF headers = <<>> THEN h
                  ELSE [id \in DOMAIN h |->
                          IF Has(data, id) THEN Put(h[id], headers[1], Str(<<"x">>)) ELSE h[id]],
                  data, headers)
         [] Head(body) = "THROW" -> Eval(h, "throw", Err("boom", <<>>))
         [] Head(body) \in {"RETURN_ALL", "RETURN_TAIL", "RETURN_NULL", "RETURN_SCALAR", "RETURN_BARE"} ->
              Eval(h, Head(body), NoError)
         [] OTHER -> Run(Tail(body), h, data, headers)

\* the catch block of codeExecutorService.executeCode
sandboxFail(h, data, headers, error, calls) ==
  Result(FALSE, error, NoSuggestion, h, data, headers, <<>>, calls)

\* codeExecutorService.executeCode after the snippet's function ran: the
\* validation of what it returned (e)
sandboxResult(e, data, headers, calls) ==
  IF e.out = "throw" THEN sandboxFail(e.heap, data, headers, e.error, calls)
  ELSE IF e.out \in {"undefined", "RETURN_NULL"}
    THEN sandboxFail(e.heap, data, headers,
                     Err("Code must return an object with {data, headers, changes}", <<>>), calls)
  ELSE IF e.out = "RETURN_SCALAR"
    THEN sandboxFail(e.heap, data, headers, Err("Result.data must be an array", <<>>), calls)
  ELSE IF e.out = "RETURN_ALL"
    THEN Result(TRUE, NoError, NoSuggestion, e.heap, data, headers,
                <<Field("rows", Len(data))>>, calls)
  ELSE IF e.out = "RETURN_TAIL"
    THEN Result(TRUE, NoError, NoSuggestion, e.heap,
                IF data = <<>> THEN <<>> ELSE Tail(data), headers, <<>>, calls)
  ELSE \* RETURN_BARE: headers inferred from the first row
       Result(TRUE, NoError, NoSuggestion, e.heap, data,
              IF Len(data) > 0 THEN Keys(e.heap[data[1]]) ELSE headers, <<>>, calls)

\* the evaluation of the wrapped code with the execution context built
sandboxEval(code, h, data, headers, context) ==
  IF ~BindsUtils(code)
    THEN sandboxFail(h, data, headers, Err("utils is not defined", <<>>), <<Call("eval", code)>>)
    ELSE sandboxResult(Run(Body(code), h, data, headers), data, headers,
                       <<Call("eval", code), Call("snippet", code)>>)

\* codeExecutorService.executeCode(code, data, headers): the context holds a
\* deep clone of the rows, and the wrapped code is evaluated
sandboxExecuteCode(code, h, data, headers) ==
  sandboxEval(code, h, data, headers, [data |-> DeepClone(h, data), headers |-> headers])

(***************************************************************************)
(* dataController: executeOperation and executeCode                        *)
(***************************************************************************)
\* handled returning, when the handler threw, what the handler left instead
\* of the input data
handledLosingInput(r, data, headers, calls) ==
  IF r.threw
    THEN Result(FALSE, Err(r.error, <<>>), NoSuggestion, r.heap, r.data, headers, <<>>, calls)
    ELSE Result(TRUE, NoError, NoSuggestion, r.heap, r.data, headers, r.changes, calls)

\* executeOperation after the handler returned or threw (r)
handled(r, data, headers, calls) ==
  IF r.threw
    THEN Result(FALSE, Err(r.error, <<>>), NoSuggestion, r.heap, data, headers, <<>>, calls)
    ELSE Result(TRUE, NoError, NoSuggestion, r.heap, r.data, headers, r.changes, calls)

\* executeOperation(operation, parameters, data, headers, columnTypes)
executeOperation(operation, parameters, h, data, headers) ==
  IF ~has(operation)
    THEN Result(FALSE, Err("Unknown operation: ", operation),
                Suggestion("Available operations: ", RegisteredNames),
                h, data, headers, <<>>, <<>>)
    ELSE handled(handler(operation, h, data, headers, parameters), data, headers,
                 <<Call("handler", operation)>>)

\* executeCode after the sandbox returned (result)
executed(result, data, headers) ==
  IF ~result.success
    THEN Result(FALSE, result.error,
                Suggestion("The generated code had an error. Try rephrasing your command.", <<>>),
                result.heap, data, headers, <<>>, result.calls)
    ELSE Result(TRUE, NoError, NoSuggestion, result.heap, result.data, result.headers,
                result.changes, result.calls)

\* executeCode after the validation
validated(validation, code, h, data, headers) ==
  IF ~validation.valid
    THEN Result(FALSE, validation.error,
                Suggestion("Code contains potentially dangerous patterns. Please rephrase your request.", <<>>),
                h, data, headers, <<>>, <<>>)
    ELSE executed(sandboxExecuteCode(code, h, data, headers), data, headers)

\* executeCode without the validation
executeCodeUnvalidated(code, h, data, headers) ==
  executed(sandboxExecuteCode(code, h, data, headers), data, headers)

\* executeCode(code, data, headers): validation, then the sandbox
executeCode(code, h, data, headers) ==
  validated(validateCode(code), code, h, data, headers)

\* an entry of the operations log
LogEntry(type, details) == [type |-> type, details |-> details]
CUSTOM_CODE == <<"c","u","s","t","o","m","_","c","o","d","e">>

(***************************************************************************)
(* Inputs: the datasets a request may find stored, and the command plans   *)
(* the interpreter may hand to processCommand.                             *)
(***************************************************************************)
AGE == <<"a","g","e">>
NAME == <<"n","a","m","e">>
Row2(a, n) == <<KV(AGE, a), KV(NAME, n)>>

\* a stored document; columnTypes is what uploadCSV computed for it
Document(rows, headers) ==
  [data |-> rows, headers |-> headers, rowCount |-> Len(rows),
   columnTypes |-> detectColumnTypes(rows, [k \in 1..Len(rows) |-> k], headers)]

Datasets ==
  { Document(<<Row2(Num(20), Str(<<"B","o","b"," ">>)),
               Row2(Num(30), Str(<<"a","l">>)),
               Row2(Num(40), Str(<<"a","l">>))>>, <<AGE, NAME>>),
    Document(<<Row2(Num(20), Str(<<"a","l">>)),
               Row2(Null, Str(<<"A","l">>)),
               Row2(Num(20), Str(<<"a","l">>)),
               Row2(Num(25), Null)>>, <<AGE, NAME>>),
    Document(<<Row2(Str(<<"7">>), Str(<<>>)),
               <<KV(NAME, Str(<<>>)), KV(AGE, Str(<<"7">>))>>,
               <<KV(AGE, Str(<<"x">>))>>>>, <<AGE, NAME>>) }

\* a step of a chain, and a plan
Step(type, operation, parameters, code) ==
  [type |-> type, operation |-> operation, parameters |-> parameters, code |-> code]
OPERATION == <<"o","p","e","r","a","t","i","o","n">>
CODE == <<"c","o","d","e">>
CHAIN == <<"c","h","a","i","n">>
MACRO == <<"m","a","c","r","o">>
OpStep(operation, parameters) == Step(OPERATION, operation, parameters, <<>>)
CodeStep(code) == Step(CODE, <<>>, NoParams, code)
Plan(type, operation, parameters, code, steps) ==
  [type |-> type, operation |-> operation, parameters |-> parameters, code |-> code,
   steps |-> steps]

FROBNICATE == <<"f","r","o","b","n","i","c","a","t","e">>
DUPLICATES == <<"d","u","p","l","i","c","a","t","e","s">>
AgeOver25 == Cond(Str(AGE), "gt", Num(25))

\* the steps plans are made of
StepChoices ==
  { OpStep(REMOVE_DUPLICATES, NoParams),
    OpStep(FILL_MISSING, NoParams),
    OpStep(STANDARDIZE, NoParams),
    OpStep(FILTER_ROWS, FilterParams(<<AgeOver25>>, "AND")),
    OpStep(FILTER_ROWS, NoParams),
    OpStep(FILTER_ROWS, FilterParams(<<Cond(Num(1), "gt", Num(25))>>, "AND")),
    OpStep(REMOVE_OUTLIERS, NoParams),
    OpStep(CLEAN, NoParams),
    OpStep(ANALYZE, NoParams),
    OpStep(DUPLICATES, NoParams),
    OpStep(FROBNICATE, NoParams),
    CodeStep(<<"RETURN_ALL", "process.">>),
    CodeStep(<<"RETURN_ALL">>),
    CodeStep(<<"BREAK", "SET", "THROW">>),
    CodeStep(<<"BREAK", "RETURN_TAIL">>),
    Step(MACRO, <<>>, NoParams, <<>>) }

MaxSteps == 2

RECURSIVE Chains(_)
Chains(n) ==
  IF n = 0 THEN {<<>>}
  ELSE LET shorter == Chains(n - 1)
       IN shorter \cup {Append(c, st) : c \in {c \in shorter : Len(c) = n - 1}, st \in StepChoices}

\* chains of three steps: a failure in the middle, a failure at the end, and
\* no failure
LongChains ==
  { <<OpStep(REMOVE_DUPLICATES, NoParams), OpStep(FROBNICATE, NoParams),
      OpStep(STANDARDIZE, NoParams)>>,
    <<OpStep(FILL_MISSING, NoParams), OpStep(STANDARDIZE, NoParams),
      CodeStep(<<"RETURN_ALL", "process.">>)>>,
    <<OpStep(FILL_MISSING, NoParams), OpStep(FILTER_ROWS, FilterParams(<<AgeOver25>>, "AND")),
      OpStep(STANDARDIZE, NoParams)>> }

\* the plans: every step as a plan of its own type, every operation as a
\* legacy plan (no type: the rule-based parser's output, or the operation
\* name given as the type), and every chain of at most MaxSteps steps
Plans ==
  {Plan(st.type, st.operation, st.parameters, st.code, <<>>) : st \in StepChoices}
  \cup {Plan(<<>>, st.operation, st.parameters, <<>>, <<>>) :
          st \in {st \in StepChoices : st.type = OPERATION}}
  \cup {Plan(st.operation, <<>>, st.parameters, <<>>, <<>>) :
          st \in {st \in StepChoices : st.type = OPERATION}}
  \cup {Plan(CHAIN, <<>>, NoParams, <<>>, c) : c \in Chains(MaxSteps) \cup LongChains}

(***************************************************************************)
(* State                                                                   *)
(***************************************************************************)
VARIABLES
  store,            \* the persisted document (Dataset in MongoDB)
  heap,             \* the row objects in memory, by reference
  dataset,          \* the document processCommand loaded: data holds references
  plan,             \* commandResult.command
  pc,               \* where processCommand is
  i,                \* executeChain: the loop index
  currentData,      \* executeChain: currentData
  currentHeaders,   \* executeChain: currentHeaders
  operations,       \* the operations log
  executionResult,  \* executionResult
  response,         \* what res.status(..).json(..) sent
  calls,            \* the calls made to handlers and to the snippet evaluator
  console           \* the `Step i/n` lines executeChain logged

vars == <<store, heap, dataset, plan, pc, i, currentData, currentHeaders, operations,
          executionResult, response, calls, console>>

NoPlan == Plan(<<>>, <<>>, NoParams, <<>>, <<>>)
NoResult == Result(FALSE, NoError, NoSuggestion, <<>>, <<>>, <<>>, <<>>, <<>>)
\* a result as the variable executionResult keeps it: the heap and the calls
\* are in the variables heap and calls
Kept(r) == [r EXCEPT !.heap = <<>>, !.calls = <<>>]
Response(status, success, message, error, suggestion) ==
  [status |-> status, success |-> success, message |-> message, error |-> error,
   suggestion |-> suggestion]
NoResponse == Response(0, FALSE, "", NoError, NoSuggestion)

Init ==
  /\ store \in Datasets
  /\ heap = <<>>
  /\ dataset = [data |-> <<>>, headers |-> <<>>, rowCount |-> 0, columnTypes |-> <<>>]
  /\ plan = NoPlan
  /\ pc = "idle"
  /\ i = 0
  /\ currentData = <<>>
  /\ currentHeaders = <<>>
  /\ operations = <<>>
  /\ executionResult = NoResult
  /\ response = NoResponse
  /\ calls = <<>>
  /\ console = <<>>

\* processCommand up to the plan: Dataset.findById gives fresh row objects,
\* llmService.processDataCommand gives the plan
Receive(p) ==
  /\ pc = "idle"
  /\ heap' = store.data
  /\ dataset' = [store EXCEPT !.data = [k \in 1..Len(store.data) |-> k]]
  /\ plan' = p
  /\ pc' = "plan"
  /\ UNCHANGED <<store, i, currentData, currentHeaders, operations, executionResult,
                 response, calls, console>>

\* processCommand, plan type 'chain': executeChain is entered
ChainStart ==
  /\ pc = "plan" /\ plan.type = CHAIN
  /\ i' = 0
  /\ currentData' = dataset.data
  /\ currentHeaders' = dataset.headers
  /\ operations' = <<>>
  /\ pc' = "chain"
  /\ UNCHANGED <<store, heap, dataset, plan, executionResult, response, calls, console>>

\* the result executeChain returns when it stops at the step of index i
ChainFailure(error) ==
  Kept(Result(FALSE, error, NoSuggestion, <<>>, currentData, currentHeaders, <<>>, <<>>))

\* ChainAfter without the return on a failed step: the loop goes on
ChainAfterContinues(type, stepResult) ==
  /\ heap' = stepResult.heap
  /\ calls' = calls \o stepResult.calls
  /\ operations' = Append(operations, LogEntry(type, stepResult.changes))
  /\ i' = i + 1
  /\ IF ~stepResult.success
       THEN UNCHANGED <<currentData, currentHeaders>>
       ELSE /\ currentData' = stepResult.data
            /\ currentHeaders' = stepResult.headers
  /\ UNCHANGED <<executionResult, pc>>

\* ChainAfter with every step given the input of the chain
ChainAfterKeepsInput(type, stepResult) ==
  /\ heap' = stepResult.heap
  /\ calls' = calls \o stepResult.calls
  /\ operations' = Append(operations, LogEntry(type, stepResult.changes))
  /\ IF ~stepResult.success
       THEN /\ executionResult' = ChainFailure([stepResult.error EXCEPT !.step = i + 1])
            /\ pc' = "executed"
            /\ UNCHANGED <<i, currentData, currentHeaders>>
       ELSE /\ i' = i + 1
            /\ UNCHANGED <<currentData, currentHeaders, executionResult, pc>>

\* the loop body of executeChain once its step returned stepResult: the log
\* entry is pushed, a failure is returned, a success feeds the next step
ChainAfter(type, stepResult) ==
  /\ heap' = stepResult.heap
  /\ calls' = calls \o stepResult.calls
  /\ operations' = Append(operations, LogEntry(type, stepResult.changes))
  /\ IF ~stepResult.success
       THEN /\ executionResult' = ChainFailure([stepResult.error EXCEPT !.step = i + 1])
            /\ pc' = "executed"
            /\ UNCHANGED <<i, currentData, currentHeaders>>
       ELSE /\ currentData' = stepResult.data
            /\ currentHeaders' = stepResult.headers
            /\ i' = i + 1
            /\ UNCHANGED <<executionResult, pc>>

\* executeChain: one turn of the loop
ChainStep ==
  /\ pc = "chain" /\ i < Len(plan.steps)
  /\ console' = Append(console, i + 1)
  /\ \/ /\ plan.steps[i + 1].type = OPERATION
        /\ ChainAfter(plan.steps[i + 1].operation,
                      executeOperation(plan.steps[i + 1].operation, plan.steps[i + 1].parameters,
                                       heap, currentData, currentHeaders))
     \/ /\ plan.steps[i + 1].type = CODE
        /\ ChainAfter(CUSTOM_CODE,
                      executeCode(plan.steps[i + 1].code, heap, currentData, currentHeaders))
     \/ /\ plan.steps[i + 1].type \notin {OPERATION, CODE}
        /\ executionResult' = ChainFailure(Err("Unknown step type: ", plan.steps[i + 1].type))
        /\ pc' = "executed"
        /\ UNCHANGED <<heap, calls, i, currentData, currentHeaders, operations>>
  /\ UNCHANGED <<store, dataset, plan, response>>

\* executeChain: the loop is over, the chain succeeded
ChainReturn ==
  /\ pc = "chain" /\ i = Len(plan.steps)
  /\ executionResult' =
       Kept(Result(TRUE, NoError, NoSuggestion, <<>>, currentData, currentHeaders, <<>>, <<>>))
  /\ pc' = "executed"
  /\ UNCHANGED <<store, heap, dataset, plan, i, currentData, currentHeaders, operations,
                 response, calls, console>>

\* processCommand with the result r of a single-step plan: the log has its
\* entry when logged
Executed(r, type, logged) ==
  /\ heap' = r.heap
  /\ calls' = calls \o r.calls
  /\ executionResult' = Kept(r)
  /\ operations' = IF logged THEN <<LogEntry(type, r.changes)>> ELSE <<>>
  /\ pc' = "executed"

\* processCommand, plan type 'code'
CodePlan ==
  /\ pc = "plan" /\ plan.type = CODE
  /\ Executed(executeCode(plan.code, heap, dataset.data, dataset.headers), CUSTOM_CODE, TRUE)
  /\ UNCHANGED <<store, dataset, plan, i, currentData, currentHeaders, response, console>>

\* the validation of processCommand for the plan type 'operation': a
\* filter_rows plan has conditions
HasConditions(operation, parameters) ==
  ~(operation = FILTER_ROWS /\ Len(parameters.conditions) = 0)

\* processCommand, plan type 'operation': the name is normalized, and a
\* filter_rows without conditions is answered 400 before any dispatch
OperationPlan ==
  /\ pc = "plan" /\ plan.type = OPERATION
  /\ IF ~HasConditions(normalizeOperation(plan.operation), plan.parameters)
       THEN /\ response' = Response(400, FALSE,
                                    "Could not parse filter conditions from your command",
                                    Err("Please specify which column and what condition", <<>>),
                                    Suggestion("Try rephrasing: remove rows where [column name] [condition] [value]", <<>>))
            /\ pc' = "done"
            /\ UNCHANGED <<heap, calls, executionResult, operations>>
       ELSE /\ Executed(executeOperation(normalizeOperation(plan.operation), plan.parameters,
                                         heap, dataset.data, dataset.headers),
                        normalizeOperation(plan.operation), TRUE)
            /\ UNCHANGED response
  /\ UNCHANGED <<store, dataset, plan, i, currentData, currentHeaders, console>>

\* commandPlan.operation || commandPlan.type
rawOperation(p) == IF p.operation # <<>> THEN p.operation ELSE p.type

\* the legacy branch with the result r: the log has an entry on success only
LegacyExecuted(r, operation) == Executed(r, operation, r.success)

\* processCommand, any other plan type: the legacy format
LegacyPlan ==
  /\ pc = "plan" /\ plan.type \notin {CHAIN, CODE, OPERATION}
  /\ LegacyExecuted(executeOperation(normalizeOperation(rawOperation(plan)), plan.parameters,
                                     heap, dataset.data, dataset.headers),
                    normalizeOperation(rawOperation(plan)))
  /\ UNCHANGED <<store, dataset, plan, i, currentData, currentHeaders, response, console>>

\* processCommand after the execution: a failure is answered 400 and nothing
\* is stored
RespondFailure ==
  /\ pc = "executed" /\ ~executionResult.success
  /\ response' = Response(400, FALSE, "Execution failed", executionResult.error,
                          IF executionResult.suggestion # NoSuggestion
                            THEN executionResult.suggestion
                            ELSE Suggestion("Please try rephrasing your command", <<>>))
  /\ pc' = "done"
  /\ UNCHANGED <<store, heap, dataset, plan, i, currentData, currentHeaders, operations,
                 executionResult, calls, console>>

\* processCommand after the execution: a success is committed to the
\* document, columnTypes recomputed when there are headers and rows, and saved
Commit ==
  /\ pc = "executed" /\ executionResult.success
  /\ dataset' = [data |-> executionResult.data,
                 headers |-> executionResult.headers,
                 rowCount |-> Len(executionResult.data),
                 columnTypes |->
                   IF Len(executionResult.headers) > 0 /\ Len(executionResult.data) > 0
                     THEN detectColumnTypes(heap, executionResult.data, executionResult.headers)
                     ELSE dataset.columnTypes]
  /\ store' = [dataset' EXCEPT !.data = Rows(heap, executionResult.data)]
  /\ response' = Response(200, TRUE, "", NoError, NoSuggestion)
  /\ pc' = "done"
  /\ UNCHANGED <<heap, plan, i, currentData, currentHeaders, operations, executionResult,
                 calls, console>>

\* the snippets llmService.generateTransformationCode may answer with
GeneratedCodes ==
  { <<"BREAK", "SET", "RETURN_ALL">>,
    <<"BREAK", "RETURN_TAIL">>,
    <<"BREAK", "SET", "THROW">>,
    <<"RETURN_ALL", "process.">> }

\* the answer when neither the parsing nor the generated code succeeded
NotUnderstood ==
  Response(400, FALSE, "Could not understand command", Err("error.message", <<>>),
           Suggestion("Try rephrasing your command or be more specific about what you want to do with the data.", <<>>))

\* the fallback with the result r of executeCode on the loaded document: a
\* success is stored with its data, headers and row count, a failure is
\* answered 400
FallbackExecuted(r) ==
  /\ heap' = r.heap
  /\ calls' = calls \o r.calls
  /\ executionResult' = Kept(r)
  /\ IF r.success
       THEN /\ dataset' = [data |-> r.data, headers |-> r.headers, rowCount |-> Len(r.data),
                           columnTypes |-> store.columnTypes]
            /\ store' = [dataset' EXCEPT !.data = Rows(r.heap, r.data)]
            /\ response' = Response(200, TRUE, "", NoError, NoSuggestion)
       ELSE /\ dataset' = [store EXCEPT !.data = [k \in 1..Len(store.data) |-> k]]
            /\ response' = NotUnderstood
            /\ UNCHANGED store

\* processCommand when llmService.processDataCommand could not parse the
\* command: generateTransformationCode fails, or its code is executed on the
\* loaded document
CodeGenerationFallback ==
  /\ pc = "idle"
  /\ \/ /\ heap' = store.data
        /\ dataset' = [store EXCEPT !.data = [k \in 1..Len(store.data) |-> k]]
        /\ response' = NotUnderstood
        /\ UNCHANGED <<store, calls, executionResult>>
     \/ \E code \in GeneratedCodes :
          FallbackExecuted(executeCode(code, store.data, [k \in 1..Len(store.data) |-> k],
                                       store.headers))
  /\ pc' = "done"
  /\ UNCHANGED <<plan, i, currentData, currentHeaders, operations, console>>

Next ==
  \/ \E p \in Plans : Receive(p)
  \/ CodeGenerationFallback
  \/ ChainStart
  \/ ChainStep
  \/ ChainReturn
  \/ CodePlan
  \/ OperationPlan
  \/ LegacyPlan
  \/ RespondFailure
  \/ Commit

Spec == Init /\ [][Next]_vars

(***************************************************************************)
(* The steps of a chain applied one after another, outside executeChain:   *)
(* each step is given what the step before it returned.  The outcome names *)
(* the first step that fails (failed, 0 when none does) with its error,    *)
(* the data and headers the last successful step returned, the log entries *)
(* of the successful steps and the calls made.                             *)
(***************************************************************************)
Outcome(failed, error, h, data, headers, log, cs) ==
  [failed |-> failed, error |-> error, heap |-> h, data |-> data, headers |-> headers,
   log |-> log, calls |-> cs]

\* a step on its own
StepAlone(step, h, data, headers) ==
  IF step.type = OPERATION
    THEN executeOperation(step.operation, step.parameters, h, data, headers)
    ELSE executeCode(step.code, h, data, headers)

StepName(step) == IF step.type = OPERATION THEN step.operation ELSE CUSTOM_CODE

RECURSIVE Sequentially(_, _, _, _, _, _, _)
\* what follows the step k, which returned r
Following(steps, k, r, data, headers, log, cs) ==
  IF ~r.success
    THEN Outcome(k, r.error, r.heap, data, headers, log, cs \o r.calls)
    ELSE Sequentially(steps, k + 1, r.heap, r.data, r.headers,
                      Append(log, LogEntry(StepName(steps[k]), r.changes)), cs \o r.calls)
Sequentially(steps, k, h, data, headers, log, cs) ==
  IF k > Len(steps) THEN Outcome(0, NoError, h, data, headers, log, cs)
  ELSE IF steps[k].type \notin {OPERATION, CODE}
    THEN Outcome(k, Err("Unknown step type: ", steps[k].type), h, data, headers, log, cs)
  ELSE Following(steps, k, StepAlone(steps[k], h, data, headers), data, headers, log, cs)

\* the steps of the plan applied one after another to the stored document
PlanSequentially ==
  Sequentially(plan.steps, 1, store.data, [k \in 1..Len(store.data) |-> k], store.headers,
               <<>>, <<>>)

\* executeChain has returned and nothing is stored yet
ChainReturned == plan.type = CHAIN /\ (pc = "executed" \/ (pc = "done" /\ response.status = 400))

(***************************************************************************)
(* C1: executeChain stops at the first failing step.  When step k of the   *)
(* chain is the first to fail (an unknown operation, a handler fault, a    *)
(* rejected or faulting snippet), the chain's result has success = false,  *)
(* its error is that step's error with the step index k, the steps started *)
(* are exactly 1..k and the calls made are those of the steps 1..k: no     *)
(* step after k is executed, then or later.                                *)
(***************************************************************************)
StoppedAt(seq) ==
  (seq.failed # 0 /\ plan.steps[seq.failed].type \in {OPERATION, CODE}) =>
    /\ ~executionResult.success
    /\ executionResult.error = [seq.error EXCEPT !.step = seq.failed]
    /\ executionResult.error.kind # ""
    /\ console = [j \in 1..seq.failed |-> j]
    /\ calls = seq.calls
    /\ i = seq.failed - 1
C1_StopsAtFirstFailure == ChainReturned => StoppedAt(PlanSequentially)

\* a chain of three steps stopped at its second step
C1_Witness ==
  /\ ChainReturned /\ pc = "done"
  /\ Len(plan.steps) = 3
  /\ ~executionResult.success
  /\ executionResult.error.step = 2
  /\ console = <<1, 2>>

(***************************************************************************)
(* C2: when executeChain fails at step k, the operations log holds exactly *)
(* the k-1 entries of the steps that succeeded, in order, and no entry for *)
(* the failing step.                                                       *)
(***************************************************************************)
C2_LogOfSucceededSteps ==
  (ChainReturned /\ ~executionResult.success /\ executionResult.error.step > 0) =>
    /\ Len(operations) = executionResult.error.step - 1
    /\ operations = PlanSequentially.log

\* the failing step is in the log: the chain failed at its step k and the log
\* has k entries, the last one for the failing step
C2_FailingStepLogged ==
  /\ ChainReturned /\ ~executionResult.success
  /\ executionResult.error.step = 2
  /\ Len(operations) = 2
  /\ operations[2].type = FROBNICATE

(***************************************************************************)
(* C3: every step of a chain receives the data and headers the step before *)
(* it returned, the first step the chain's input.  A chain whose steps all *)
(* succeed returns the data and headers that applying its steps one after  *)
(* another gives, and its log has one entry per step, in step order.       *)
(***************************************************************************)
SameAs(seq) ==
  (seq.failed = 0) =>
    /\ executionResult.success
    /\ executionResult.data = seq.data
    /\ heap = seq.heap
    /\ executionResult.headers = seq.headers
    /\ operations = seq.log
    /\ Len(operations) = Len(plan.steps)
    /\ \A k \in 1..Len(plan.steps) : operations[k].type = StepName(plan.steps[k])
C3_StepsThreaded == (plan.type = CHAIN /\ pc = "executed") => SameAs(PlanSequentially)

\* a successful chain whose second step worked on what the first one returned:
\* fill_missing wrote a row, the filter then removed rows
C3_Witness ==
  /\ plan.type = CHAIN /\ pc = "executed" /\ executionResult.success
  /\ Len(plan.steps) = 3
  /\ plan.steps[1].operation = FILL_MISSING
  /\ plan.steps[2].operation = FILTER_ROWS
  /\ Len(executionResult.data) < Len(store.data)
  /\ Len(executionResult.data) > 0

(***************************************************************************)
(* C4: after a command or a chain that fails, the rows and the headers of  *)
(* the dataset that was passed to the engine are what they were before the *)
(* call (what the store holds): the effects of the steps that succeeded    *)
(* are in the result only.                                                 *)
(***************************************************************************)
C4_FailureLeavesDataset ==
  (pc \in {"executed", "done"} /\ ~executionResult.success /\ response.status # 200) =>
    /\ Rows(heap, dataset.data) = store.data
    /\ dataset.headers = store.headers

\* fill_missing succeeded, a later step failed, and a row of the dataset
\* passed in has a cell that fill_missing wrote
C4_RowsWrittenInPlace ==
  /\ ChainReturned /\ ~executionResult.success
  /\ plan.steps[1].operation = FILL_MISSING
  /\ executionResult.error.step = 2
  /\ Rows(heap, dataset.data) # store.data

(***************************************************************************)
(* C5: an operation whose name is not registered gives success = false,    *)
(* the error 'Unknown operation', the input data and headers unmodified,   *)
(* and a suggestion that lists the registered names; the suggestion is in  *)
(* the answer to the caller for a single-step plan and for a chain step.   *)
(***************************************************************************)
C5_UnknownOperationSuggestion ==
  (pc = "done" /\ response.error.kind = "Unknown operation: ") =>
    /\ ~response.success
    /\ response.suggestion = Suggestion("Available operations: ", RegisteredNames)
    /\ Rows(heap, executionResult.data) = store.data
    /\ executionResult.headers = store.headers

\* an unknown operation as the step of a chain: the answer carries the default
\* suggestion, not the registered names
C5_ChainDropsSuggestion ==
  /\ pc = "done" /\ plan.type = CHAIN
  /\ response.error.kind = "Unknown operation: "
  /\ response.suggestion = Suggestion("Please try rephrasing your command", <<>>)

(***************************************************************************)
(* C6: a snippet that matches a pattern of the denylist is never invoked:  *)
(* every evaluation made is of a snippet the validation accepted, and      *)
(* executeCode on a denylisted snippet returns a failure, makes no call,   *)
(* writes no row, and returns the data and headers it was given.           *)
(***************************************************************************)
\* the steps before step k applied one after another: what step k is given
Before(k) ==
  Sequentially(SubSeq(plan.steps, 1, k - 1), 1, store.data,
               [j \in 1..Len(store.data) |-> j], store.headers, <<>>, <<>>)
Denylisted(code) == ~validateCode(code).valid
RejectedOn(given) ==
  /\ ~executionResult.success
  /\ executionResult.error.kind = "Code contains potentially dangerous pattern: "
  /\ calls = given.calls
  /\ heap = given.heap
  /\ executionResult.data = given.data
  /\ executionResult.headers = given.headers
C6_RejectedBeforeExecution ==
  /\ \A j \in 1..Len(calls) : calls[j].fn \in {"eval", "snippet"} => ~Denylisted(calls[j].name)
  /\ (pc = "executed" /\ plan.type = CODE /\ Denylisted(plan.code)) => RejectedOn(Before(1))
  /\ \A k \in 1..Len(plan.steps) :
       (ChainReturned /\ Before(k).failed = 0 /\ plan.steps[k].type = CODE
          /\ Denylisted(plan.steps[k].code)) => RejectedOn(Before(k))

\* a denylisted snippet rejected as the step of a chain, after a step that
\* succeeded
C6_Witness ==
  /\ ChainReturned /\ pc = "executed"
  /\ executionResult.error.step = 2
  /\ plan.steps[2].type = CODE /\ Denylisted(plan.steps[2].code)
  /\ executionResult.error.kind = "Code contains potentially dangerous pattern: "
  /\ Len(calls) = 1

(***************************************************************************)
(* C7: a snippet that faults at run time, or returns a malformed result,   *)
(* is reported as success = false, and the rows of the dataset passed to   *)
(* executeCode are untouched: no write the snippet made before the fault   *)
(* is visible in them.                                                     *)
(***************************************************************************)
C7_FaultLeavesRows ==
  (pc = "executed" /\ plan.type = CODE /\ ~Denylisted(plan.code)
     /\ Run(Body(plan.code), store.data, dataset.data, dataset.headers).out
          \in {"throw", "undefined", "RETURN_NULL", "RETURN_SCALAR"}) =>
    /\ ~executionResult.success
    /\ Rows(heap, dataset.data) = store.data

\* the snippet wrote the rows it was given and then threw: the fault is
\* reported, and the rows of the dataset carry the write
C7_WriteVisibleAfterFault ==
  /\ pc = "executed" /\ plan.type = CODE
  /\ Has(plan.code, "THROW")
  /\ ~executionResult.success
  /\ Rows(heap, dataset.data) # store.data

(***************************************************************************)
(* C9: a filter_rows operation with zero conditions is never dispatched to *)
(* the handler: it is reported as a failure, whether it comes as a         *)
(* single-operation plan, as a legacy plan or as the step of a chain.      *)
(***************************************************************************)
ZeroConditions(operation, parameters) ==
  operation = FILTER_ROWS /\ Len(parameters.conditions) = 0
NotDispatched ==
  /\ pc \in {"executed", "done"}
  /\ IF pc = "done" THEN ~response.success ELSE ~executionResult.success
  /\ (calls # <<>> => calls[Len(calls)] # Call("handler", FILTER_ROWS))
C9_ZeroConditionsNotDispatched ==
  /\ (pc \in {"executed", "done"} /\ plan.type \notin {CHAIN, CODE}
        /\ ZeroConditions(normalizeOperation(rawOperation(plan)), plan.parameters))
       => NotDispatched
  /\ \A k \in 1..Len(console) :
       (plan.type = CHAIN /\ plan.steps[k].type = OPERATION
          /\ ZeroConditions(plan.steps[k].operation, plan.steps[k].parameters))
       => (k = Len(console) /\ NotDispatched /\ executionResult.error.step = k)

\* a legacy plan (no type) for filter_rows without conditions: the handler was
\* called and the command succeeded
C9_LegacyDispatched ==
  /\ pc = "done" /\ plan.type = <<>>
  /\ ZeroConditions(normalizeOperation(rawOperation(plan)), plan.parameters)
  /\ calls = <<Call("handler", FILTER_ROWS)>>
  /\ response.success

(***************************************************************************)
(* filter_rows on its own: the registry handler applied by executeOperation *)
(* to a stored document, for the condition lists below.  A column label is *)
(* a string or is missing.                                                 *)
(***************************************************************************)
MaxConditions == 2

ZZZ == <<"z","z","z">>
AL == <<"a","l">>
Conditions ==
  { AgeOver25,
    Cond(Str(<<"A","G","E">>), "lt", Num(35)),
    Cond(Str(NAME), "eq", Str(AL)),
    Cond(Str(ZZZ), "gt", Num(0)),
    Cond(Str(ZZZ), "ne", Str(AL)),
    Cond(Str(AGE), "even", Undefined),
    Cond(Str(NAME), "lte", Num(5)),
    Cond(Null, "eq", Null) }

RECURSIVE ConditionLists(_)
ConditionLists(n) ==
  IF n = 0 THEN {<<>>}
  ELSE LET shorter == ConditionLists(n - 1)
       IN shorter \cup {Append(l, c) : l \in {l \in shorter : Len(l) = n - 1}, c \in Conditions}

FilterPlans ==
  {Plan(OPERATION, FILTER_ROWS, FilterParams(l, logic), <<>>, <<>>) :
     l \in ConditionLists(MaxConditions) \ {<<>>}, logic \in {"AND", "OR"}}

InitFilter ==
  /\ store \in Datasets
  /\ heap = store.data
  /\ dataset = [store EXCEPT !.data = [k \in 1..Len(store.data) |-> k]]
  /\ plan \in FilterPlans
  /\ pc = "filter"
  /\ i = 0
  /\ currentData = <<>>
  /\ currentHeaders = <<>>
  /\ operations = <<>>
  /\ executionResult = NoResult
  /\ response = NoResponse
  /\ calls = <<>>
  /\ console = <<>>

\* the result r of the operation is kept
FilterResult(r) ==
  /\ heap' = r.heap
  /\ calls' = calls \o r.calls
  /\ executionResult' = Kept(r)
  /\ pc' = "filtered"

\* executeOperation('filter_rows', parameters, data, headers)
FilterRows ==
  /\ pc = "filter"
  /\ FilterResult(executeOperation(plan.operation, plan.parameters, heap, dataset.data,
                                   dataset.headers))
  /\ UNCHANGED <<store, dataset, plan, i, currentData, currentHeaders, operations, response,
                 console>>

NextFilter == FilterRows

SpecFilter == InitFilter /\ [][NextFilter]_vars

\* the row satisfies the condition number c of the plan
Satisfies(id, c) ==
  evaluateCondition(dataset.headers, store.data[id], plan.parameters.conditions[c])
NumConditions == Len(plan.parameters.conditions)
\* the ages of the rows of the result
ResultAges == [k \in 1..Len(executionResult.data) |-> Get(heap[executionResult.data[k]], AGE)]

(***************************************************************************)
(* C8: filter_rows deletes the rows that match.  With logic AND the result *)
(* is the input rows, in order, that do not satisfy all the conditions;    *)
(* with logic OR it is the input rows that satisfy none of them.  Rows of  *)
(* age 20, 30, 40 filtered by 'age gt 25' leave the row of age 20.         *)
(***************************************************************************)
C8_DeleteMatching ==
  pc = "filtered" =>
    /\ executionResult.success
    /\ heap = store.data
    /\ plan.parameters.logic = "AND" =>
         executionResult.data =
           SelectSeq(dataset.data, LAMBDA id : ~\A c \in 1..NumConditions : Satisfies(id, c))
    /\ plan.parameters.logic = "OR" =>
         executionResult.data =
           SelectSeq(dataset.data, LAMBDA id : ~\E c \in 1..NumConditions : Satisfies(id, c))
    /\ (plan.parameters.conditions = <<AgeOver25>>
          /\ [k \in 1..Len(store.data) |-> Get(store.data[k], AGE)] = <<Num(20), Num(30), Num(40)>>)
         => ResultAges = <<Num(20)>>

\* two conditions on the rows of age 20, 30, 40: under OR (age gt 25, age lt
\* 35) no row is left; under AND the row of age 30 is removed
C8_Witness ==
  /\ pc = "filtered"
  /\ plan.parameters.conditions = <<AgeOver25, Cond(Str(<<"A","G","E">>), "lt", Num(35))>>
  /\ \/ plan.parameters.logic = "OR" /\ Len(store.data) = 3 /\ executionResult.data = <<>>
     \/ plan.parameters.logic = "AND" /\ ResultAges = <<Num(20), Num(40)>>

(***************************************************************************)
(* C10: a condition whose column resolves to no header is false for every  *)
(* row, and filter_rows completes: under AND no row is removed, under OR   *)
(* the rows removed are those that satisfy one of the other conditions.    *)
(***************************************************************************)
Resolves(c) == findColumn(dataset.headers, plan.parameters.conditions[c].column) # NotFound
C10_UnresolvedColumnIsFalse ==
  (pc = "filtered" /\ \E c \in 1..NumConditions : ~Resolves(c)) =>
    /\ executionResult.success
    /\ \A c \in 1..NumConditions : ~Resolves(c) => \A id \in 1..Len(store.data) : ~Satisfies(id, c)
    /\ plan.parameters.logic = "AND" => executionResult.data = dataset.data
    /\ plan.parameters.logic = "OR" =>
         executionResult.data =
           SelectSeq(dataset.data,
                     LAMBDA id : ~\E c \in 1..NumConditions : Resolves(c) /\ Satisfies(id, c))

\* under OR, a condition on a column that is not found ('zzz' ne 'al', true of
\* an undefined cell) next to 'age gt 25': the rows of age 30 and 40 are
\* removed, the row of age 20 is kept
C10_Witness ==
  /\ pc = "filtered"
  /\ plan.parameters.logic = "OR"
  /\ plan.parameters.conditions = <<Cond(Str(ZZZ), "ne", Str(AL)), AgeOver25>>
  /\ ResultAges = <<Num(20)>>
  /\ executionResult.success

(***************************************************************************)
(* The registry operations on their own: executeOperation applied to a     *)
(* document, and applied again to what it returned.  Documents are the     *)
(* lists of at most MaxRows rows below, and documents with one outlying    *)
(* value.                                                                  *)
(***************************************************************************)
MaxRows == 3
MaxApplications == 2

RowChoices ==
  { Row2(Num(20), Str(AL)),
    <<KV(NAME, Str(AL)), KV(AGE, Num(20))>>,
    Row2(Null, Str(<<" ","A","l">>)),
    Row2(Num(30), Str(<<>>)),
    Row2(Num(40), Str(<<"B","o","b"," ">>)),
    <<KV(AGE, Str(<<"x">>))>> }

RECURSIVE RowLists(_)
RowLists(n) ==
  IF n = 0 THEN {<<>>}
  ELSE LET shorter == RowLists(n - 1)
       IN shorter \cup {Append(l, r) : l \in {l \in shorter : Len(l) = n - 1}, r \in RowChoices}

\* the rows {age: v} for the values of a list
AgeRows(values) == [k \in 1..Len(values) |-> <<KV(AGE, Num(values[k]))>>]
SCORE == <<"s","c","o","r","e">>
OutlierDatasets ==
  { Document(AgeRows(<<1, 2, 3, 4, 5, 6, 7, 8, 9, 100>>), <<AGE>>),
    Document(AgeRows(<<100, 3, 1, 2, 3>>), <<AGE>>),
    Document(<<<<KV(AGE, Num(1)), KV(SCORE, Num(5))>>,
               <<KV(AGE, Num(50)), KV(SCORE, Num(5))>>,
               <<KV(AGE, Num(1)), KV(SCORE, Num(5))>>,
               <<KV(AGE, Num(1)), KV(SCORE, Num(9))>>,
               <<KV(AGE, Num(1)), KV(SCORE, Num(5))>>>>, <<AGE, SCORE>>) }

OpDatasets == {Document(rows, <<AGE, NAME>>) : rows \in RowLists(MaxRows)} \cup OutlierDatasets

\* a column of StandardizeMaxUnique names: 'A' twice and eighteen other
\* names, and 'A', ' c', seventeen other names and 'T'
NameRows(names) == [k \in 1..Len(names) |-> <<KV(NAME, Str(names[k]))>>]
CaseDatasets ==
  { Document(NameRows([k \in 1..StandardizeMaxUnique |->
                         IF k <= 2 THEN <<"A">> ELSE <<LowerChars[k]>>]), <<NAME>>),
    Document(NameRows([k \in 1..StandardizeMaxUnique |->
                         IF k = 1 THEN <<"A">>
                         ELSE IF k = 2 THEN <<" ", "c">>
                         ELSE IF k = StandardizeMaxUnique THEN <<"T">>
                         ELSE <<LowerChars[k]>>]), <<NAME>>) }

OpPlans ==
  { Plan(OPERATION, REMOVE_DUPLICATES, NoParams, <<>>, <<>>),
    Plan(OPERATION, FILL_MISSING, NoParams, <<>>, <<>>),
    Plan(OPERATION, FILL_MISSING, StrategyParams("remove"), <<>>, <<>>),
    Plan(OPERATION, REMOVE_OUTLIERS, NoParams, <<>>, <<>>),
    Plan(OPERATION, STANDARDIZE, NoParams, <<>>, <<>>),
    Plan(OPERATION, CLEAN, NoParams, <<>>, <<>>),
    Plan(OPERATION, ANALYZE, NoParams, <<>>, <<>>),
    Plan(OPERATION, FILTER_ROWS, FilterParams(<<AgeOver25>>, "AND"), <<>>, <<>>) }

InitOps ==
  /\ store \in OpDatasets \cup CaseDatasets
  /\ heap = store.data
  /\ dataset = [store EXCEPT !.data = [k \in 1..Len(store.data) |-> k]]
  /\ plan \in OpPlans
  /\ pc = "apply"
  /\ i = 0
  /\ currentData = dataset.data
  /\ currentHeaders = dataset.headers
  /\ operations = <<>>
  /\ executionResult = NoResult
  /\ response = NoResponse
  /\ calls = <<>>
  /\ console = <<>>

(***************************************************************************)
(* llmService.explainDataCleaning and generateFallbackExplanation.  The    *)
(* explanation is kept as the list of its numbered step descriptions: the  *)
(* number, the title and the values the template reads from the details.   *)
(***************************************************************************)
HANDLE_MISSING == <<"h","a","n","d","l","e","_","m","i","s","s","i","n","g">>
STANDARDIZE_FORMATS ==
  <<"s","t","a","n","d","a","r","d","i","z","e","_","f","o","r","m","a","t","s">>

HasField(details, f) == \E k \in 1..Len(details) : details[k].f = f
\* op.details.f
FieldOf(details, f) == details[CHOOSE k \in 1..Len(details) : details[k].f = f]
\* ${op.details.f}: the number, or undefined
Shown(details, f) == IF HasField(details, f) THEN <<FieldOf(details, f).n>> ELSE <<"undefined">>
Described(index, title, values) == [index |-> index, title |-> title, values |-> values]

\* the template reads a property of a field the details do not have
TemplateThrows(op) ==
  \/ op.type \in {FILL_MISSING, STANDARDIZE_FORMATS} /\ ~HasField(op.details, "columnsAffected")
  \/ op.type = REMOVE_OUTLIERS /\ ~HasField(op.details, "affectedColumns")

\* the switch on op.type: what one operation adds to the explanation
StepDescriptions(op, index) ==
  CASE op.type = REMOVE_DUPLICATES ->
         <<Described(index, "Removed Duplicates", Shown(op.details, "removed"))>>
    [] op.type = HANDLE_MISSING ->
         <<Described(index, "Handled Missing Values", Shown(op.details, "rowsRemoved"))>>
    [] op.type = FILL_MISSING ->
         <<Described(index, "Filled Missing Values",
                     Shown(op.details, "valuesFilled")
                       \o FieldOf(op.details, "columnsAffected").cols)>>
    [] op.type = STANDARDIZE_FORMATS ->
         <<Described(index, "Standardized Formats",
                     <<Len(FieldOf(op.details, "columnsAffected").cols)>>)>>
    [] op.type = REMOVE_OUTLIERS ->
         <<Described(index, "Removed Outliers",
                     Shown(op.details, "outliersRemoved")
                       \o FieldOf(op.details, "affectedColumns").cols)>>
    [] op.type = FILTER_ROWS ->
         <<Described(index, "Filtered Rows",
                     Shown(op.details, "rowsRemoved") \o Shown(op.details, "originalCount"))>>
    [] OTHER -> <<>>

RECURSIVE ExplainFrom(_, _)
ExplainFrom(operationsLog, index) ==
  IF index > Len(operationsLog) THEN <<>>
  ELSE StepDescriptions(operationsLog[index], index) \o ExplainFrom(operationsLog, index + 1)

\* generateFallbackExplanation(operations)
generateFallbackExplanation(operationsLog) ==
  [threw |-> \E k \in 1..Len(operationsLog) : TemplateThrows(operationsLog[k]),
   steps |-> IF \E k \in 1..Len(operationsLog) : TemplateThrows(operationsLog[k])
               THEN <<>> ELSE ExplainFrom(operationsLog, 1)]

\* what explainDataCleaning returns: the text of the model when it answers,
\* the fallback explanation when the call fails
Explained(explanation, usedFallback) ==
  [success |-> TRUE, explanation |-> explanation, usedFallback |-> usedFallback]

\* the result r of the operation is kept, and is the input of the next call
ApplyResult(r) ==
  /\ heap' = r.heap
  /\ calls' = calls \o r.calls
  /\ executionResult' = Kept(r)
  /\ operations' = Append(operations, LogEntry(plan.operation, r.changes))
  /\ currentData' = r.data
  /\ currentHeaders' = r.headers
  /\ i' = i + 1

\* executeOperation(operation, parameters, data, headers) on the document, then
\* on what the call before returned
Apply ==
  /\ pc = "apply" /\ i < MaxApplications
  /\ i > 0 => executionResult.success
  /\ ApplyResult(executeOperation(plan.operation, plan.parameters, heap, currentData,
                                  currentHeaders))
  /\ UNCHANGED <<store, dataset, plan, pc, response, console>>

\* llmService.explainDataCleaning(operations) after operations that
\* succeeded: the model answers, or the call fails and the fallback explains
ExplainDataCleaning ==
  /\ pc = "apply" /\ i > 0 /\ executionResult.success
  /\ \/ response' = Explained("text", FALSE)
     \/ response' = Explained(generateFallbackExplanation(operations), TRUE)
  /\ pc' = "explained"
  /\ UNCHANGED <<store, heap, dataset, plan, i, currentData, currentHeaders, operations,
                 executionResult, calls, console>>

NextOps == Apply \/ ExplainDataCleaning

SpecOps == InitOps /\ [][NextOps]_vars

\* the operation of the plan was applied n times, each time with success
Applied(operation, n) ==
  pc = "apply" /\ plan.operation = operation /\ i = n /\ executionResult.success

(***************************************************************************)
(* C11: remove_duplicates keeps the first occurrence of every row and      *)
(* drops the later rows equal to it, and it is idempotent: applied to its  *)
(* own result it returns the same rows and reports zero duplicates         *)
(* removed.                                                                *)
(***************************************************************************)
\* the rows of the document no earlier row is equal to
FirstOfEach == SelectSeq(dataset.data, LAMBDA id : \A j \in 1..(id - 1) : store.data[j] # store.data[id])
C11_DeduplicateIdempotent ==
  /\ (Applied(REMOVE_DUPLICATES, 1) \/ Applied(REMOVE_DUPLICATES, 2)) =>
       /\ currentData = FirstOfEach
       /\ heap = store.data
       /\ operations[1].details = <<Field("duplicatesRemoved", Len(store.data) - Len(FirstOfEach))>>
  /\ Applied(REMOVE_DUPLICATES, 2) => operations[2].details = <<Field("duplicatesRemoved", 0)>>
  /\ (pc = "apply" /\ plan.operation = REMOVE_DUPLICATES /\ i > 0) => executionResult.success

\* the first application removed a duplicate from between two other rows, the
\* second one removed nothing
C11_Witness ==
  /\ Applied(REMOVE_DUPLICATES, 2)
  /\ Len(store.data) = 3 /\ store.data[1] = store.data[2] /\ store.data[3] # store.data[1]
  /\ currentData = <<1, 3>>
  /\ operations[1].details = <<Field("duplicatesRemoved", 1)>>
  /\ operations[2].details = <<Field("duplicatesRemoved", 0)>>

(***************************************************************************)
(* C12: remove_duplicates compares rows by a serialization with a stable   *)
(* key order: two rows that map the same columns to the same values are    *)
(* duplicates whatever the order their keys were inserted in, so the       *)
(* result holds no two such rows.                                          *)
(***************************************************************************)
SameMapping(r1, r2) == Range(r1) = Range(r2)
C12_KeyOrderIrrelevant ==
  Applied(REMOVE_DUPLICATES, 1) =>
    \A a, b \in 1..Len(currentData) :
      a # b => ~SameMapping(heap[currentData[a]], heap[currentData[b]])

\* {age: 20, name: 'al'} and {name: 'al', age: 20} are both in the result
C12_BothKeyOrdersKept ==
  /\ Applied(REMOVE_DUPLICATES, 1)
  /\ Len(currentData) = 2
  /\ heap[currentData[1]] = Row2(Num(20), Str(AL))
  /\ heap[currentData[2]] = <<KV(NAME, Str(AL)), KV(AGE, Num(20))>>
  /\ operations[1].details = <<Field("duplicatesRemoved", 0)>>

(***************************************************************************)
(* C13: the registry operation fill_missing called with strategy 'remove'  *)
(* drops every row that has a missing value (null, undefined or '') under  *)
(* some header, leaves the other rows as they are, and fills no cell.      *)
(***************************************************************************)
\* the row of the document has a value that is not missing under every header
Complete(id) == \A c \in 1..Len(dataset.headers) : NonEmpty(Get(store.data[id], dataset.headers[c]))
C13_RemoveStrategyDropsRows ==
  (Applied(FILL_MISSING, 1) /\ plan.parameters.strategy = "remove") =>
    /\ currentData = SelectSeq(dataset.data, Complete)
    /\ heap = store.data

\* called with strategy 'remove' on a document with a missing age: the row is
\* still there, and its age is filled with the mean of the others
C13_FilledInsteadOfRemoved ==
  /\ Applied(FILL_MISSING, 1) /\ plan.parameters.strategy = "remove"
  /\ Len(store.data) = 2
  /\ Get(store.data[1], AGE) = Null
  /\ Get(store.data[2], AGE) = Num(30)
  /\ currentData = <<1, 2>>
  /\ Get(heap[1], AGE) = Num(30)
  /\ operations[1].details[2] = Field("valuesFilled", 2)

(***************************************************************************)
(* C14: remove_outliers takes the number columns in header order, each on  *)
(* the rows the columns before it left.  It keeps a row iff its value v in *)
(* the column has Q1 - 1.5*IQR <= v <= Q3 + 1.5*IQR, where Q1 and Q3 are   *)
(* the values at the indices floor(n*0.25) and floor(n*0.75) of the n      *)
(* values sorted.  Of the values 1..9 and 100 exactly 100 is removed.  A   *)
(* value is the cell read as a number.                                     *)
(***************************************************************************)
\* the value of a row of the document in a column
ValueOf(id, column) == Number(Get(store.data[id], column))
\* the element of index k (from 0) of the values of the rows ids, sorted
Sorted(ids, column, k) ==
  LET vals == {id \in Range(ids) : ~ValueOf(id, column).nan}
      x == CHOOSE x \in vals :
             /\ Cardinality({y \in vals : ValueOf(y, column).n < ValueOf(x, column).n}) <= k
             /\ k < Cardinality({y \in vals : ValueOf(y, column).n <= ValueOf(x, column).n})
  IN ValueOf(x, column).n
NumValues(ids, column) == Cardinality({id \in Range(ids) : ~ValueOf(id, column).nan})
InBounds(v, q1, q3) == ~v.nan /\ 2 * v.n >= 2 * q1 - 3 * (q3 - q1) /\ 2 * v.n <= 2 * q3 + 3 * (q3 - q1)
WithinBounds(ids, column) ==
  IF NumValues(ids, column) = 0 THEN ids
  ELSE SelectSeq(ids, LAMBDA id :
         InBounds(ValueOf(id, column),
                  Sorted(ids, column, NumValues(ids, column) \div 4),
                  Sorted(ids, column, (3 * NumValues(ids, column)) \div 4)))
RECURSIVE ColumnByColumn(_, _)
ColumnByColumn(ids, columns) ==
  IF columns = <<>> THEN ids
  ELSE ColumnByColumn(WithinBounds(ids, Head(columns)), Tail(columns))
NumberColumns == SelectSeq(dataset.headers, LAMBDA hd : store.columnTypes[hd] = "number")
C14_OutlierBounds ==
  Applied(REMOVE_OUTLIERS, 1) =>
    /\ currentData = ColumnByColumn(dataset.data, NumberColumns)
    /\ heap = store.data
    /\ operations[1].details[1] = Field("outliersRemoved", Len(dataset.data) - Len(currentData))
    /\ Column(store.data, dataset.data, AGE) =
         [k \in 1..10 |-> Num((<<1, 2, 3, 4, 5, 6, 7, 8, 9, 100>>)[k])]
       => currentData = <<1, 2, 3, 4, 5, 6, 7, 8, 9>>

\* two number columns: the age 50 is removed, and the score 9, an outlier
\* among the five scores, is kept among the four scores left
C14_Witness ==
  /\ Applied(REMOVE_OUTLIERS, 1)
  /\ dataset.headers = <<AGE, SCORE>>
  /\ Len(store.data) = 5
  /\ currentData = <<1, 3, 4, 5>>
  /\ Get(heap[4], SCORE) = Num(9)
  /\ operations[1].details = <<Field("outliersRemoved", 1), FieldCols("affectedColumns", <<AGE>>)>>

(***************************************************************************)
(* C15: clean returns the rows that remove_duplicates, then fill_missing   *)
(* with strategy remove (the rows with a missing value are dropped), then  *)
(* standardize give when applied in sequence, and its change log carries   *)
(* the count of each of the three stages: the duplicates removed, the rows *)
(* removed, the columns standardized.                                      *)
(***************************************************************************)
\* standardize applied to the rows the first two stages leave
ThenStandardize(ids) == executeOperation(STANDARDIZE, NoParams, store.data, ids, dataset.headers)
SameAsStages(deduplicated, complete, standardized) ==
  /\ deduplicated =
       executeOperation(REMOVE_DUPLICATES, NoParams, store.data, dataset.data, dataset.headers).data
  /\ currentData = standardized.data
  /\ Rows(heap, currentData) = Rows(standardized.heap, standardized.data)
  /\ operations[1].details =
       <<Field("duplicatesRemoved", Len(dataset.data) - Len(deduplicated)),
         Field("rowsRemoved", Len(deduplicated) - Len(complete)),
         Field("columnsStandardized", Len(standardized.changes[1].cols))>>
C15_CleanIsThreeStages ==
  Applied(CLEAN, 1) =>
    SameAsStages(FirstOfEach, SelectSeq(FirstOfEach, Complete),
                 ThenStandardize(SelectSeq(FirstOfEach, Complete)))

\* every stage did something: a duplicate removed, a row with a missing age
\* removed, and the name of the row left trimmed and lower-cased
C15_Witness ==
  /\ Applied(CLEAN, 1)
  /\ Len(store.data) = 3
  /\ Get(store.data[1], NAME) = Str(<<"B","o","b"," ">>)
  /\ operations[1].details =
       <<Field("duplicatesRemoved", 1), Field("rowsRemoved", 1), Field("columnsStandardized", 1)>>
  /\ Len(currentData) = 1
  /\ Get(heap[currentData[1]], NAME) = Str(<<"b","o","b">>)

(***************************************************************************)
(* C16: analyze never mutates rows: after analyze has been applied, once   *)
(* or again, the document has the rows it had before, in the same order,   *)
(* every row object holds the cells it held, the headers are the same and  *)
(* the logged changes are empty.                                           *)
(***************************************************************************)
C16_AnalyzeLeavesRows ==
  (plan.operation = ANALYZE /\ pc = "apply" /\ i > 0) =>
    /\ executionResult.success
    /\ heap = store.data
    /\ currentData = dataset.data
    /\ currentHeaders = dataset.headers
    /\ \A k \in 1..Len(operations) : operations[k].details = <<>>

\* analyze applied twice to three rows, one of them with a missing age and an
\* untrimmed name
C16_Witness ==
  /\ Applied(ANALYZE, 2)
  /\ Len(store.data) = 3
  /\ \E k \in 1..3 : store.data[k] = Row2(Null, Str(<<" ","A","l">>))
  /\ Rows(heap, currentData) = store.data

(***************************************************************************)
(* detectColumnTypes alone: uploadCSV detects the column types of the rows *)
(* it parsed and stores the document.                                      *)
(***************************************************************************)
MaxCells == 3

\* the cells of the column age, and of the column name
CellChoices ==
  {Str(<<"1">>), Str(<<"2">>), Str(<<"3">>), Str(<<"x">>), Str(<<"1","-","2","-","3">>),
   Str(<<>>), Null}
NameChoices == {Str(<<"x">>), Num(Scale)}

RECURSIVE ParsedRows(_)
ParsedRows(n) ==
  IF n = 0 THEN {<<>>}
  ELSE LET shorter == ParsedRows(n - 1)
       IN shorter \cup {Append(l, Row2(a, b)) :
                          l \in {l \in shorter : Len(l) = n - 1},
                          a \in CellChoices, b \in NameChoices}

NoDocument == [data |-> <<>>, headers |-> <<>>, rowCount |-> 0, columnTypes |-> <<>>]

InitTypes ==
  /\ heap \in ParsedRows(MaxCells)
  /\ currentData = [k \in 1..Len(heap) |-> k]
  /\ currentHeaders = <<AGE, NAME>>
  /\ store = NoDocument
  /\ dataset = NoDocument
  /\ plan = NoPlan
  /\ pc = "parsed"
  /\ i = 0
  /\ operations = <<>>
  /\ executionResult = NoResult
  /\ response = NoResponse
  /\ calls = <<>>
  /\ console = <<>>

\* uploadCSV after parseCSV: detectColumnTypes, Dataset.create
UploadCSV ==
  /\ pc = "parsed"
  /\ store' = [data |-> Rows(heap, currentData), headers |-> currentHeaders,
               rowCount |-> Len(currentData),
               columnTypes |-> detectColumnTypes(heap, currentData, currentHeaders)]
  /\ response' = Response(200, TRUE, "", NoError, NoSuggestion)
  /\ pc' = "uploaded"
  /\ UNCHANGED <<heap, dataset, plan, i, currentData, currentHeaders, operations,
                 executionResult, calls, console>>

NextTypes == UploadCSV

SpecTypes == InitTypes /\ [][NextTypes]_vars

\* the non-empty cells of a column of the stored document
Filled(header) ==
  SelectSeq([k \in 1..Len(store.data) |-> Get(store.data[k], header)],
            LAMBDA v : v \notin {Null, Undefined, Str(<<>>)})
AllNumbers(values) == \A k \in 1..Len(values) : ~Number(values[k]).nan
AllDates(values) == \A k \in 1..Len(values) : datePattern(String(values[k]))
FewValues(values) ==
  /\ 2 * Cardinality(Range(values)) < Len(values)
  /\ Cardinality(Range(values)) < CategoricalMaxUnique
\* the first check of empty, number, date, categorical, text the values pass
FirstCheck(values) ==
  CASE values = <<>> -> "empty"
    [] values # <<>> /\ AllNumbers(values) -> "number"
    [] values # <<>> /\ ~AllNumbers(values) /\ AllDates(values) -> "date"
    [] values # <<>> /\ ~AllNumbers(values) /\ ~AllDates(values) /\ FewValues(values) ->
         "categorical"
    [] OTHER -> "text"

(***************************************************************************)
(* C17: detectColumnTypes gives every header one type, the first of the    *)
(* checks empty, number, date, categorical, text that the non-empty cells  *)
(* of that column alone pass; a column whose non-empty cells all parse as  *)
(* numbers is number also when its values are few enough for categorical.  *)
(***************************************************************************)
C17_ClassificationOrder ==
  pc = "uploaded" =>
    /\ DOMAIN store.columnTypes = {AGE, NAME}
    /\ \A hd \in {AGE, NAME} : store.columnTypes[hd] = FirstCheck(Filled(hd))
    /\ \A hd \in {AGE, NAME} :
         (Filled(hd) # <<>> /\ AllNumbers(Filled(hd))) => store.columnTypes[hd] = "number"

\* the column "1", "2", "3" is number, next to a column of three cells 1, few
\* enough values for categorical, that is number too
C17_Witness ==
  /\ pc = "uploaded"
  /\ Filled(AGE) = <<Str(<<"1">>), Str(<<"2">>), Str(<<"3">>)>>
  /\ store.columnTypes[AGE] = "number"
  /\ Filled(NAME) = <<Num(Scale), Num(Scale), Num(Scale)>>
  /\ FewValues(Filled(NAME))
  /\ store.columnTypes[NAME] = "number"

(***************************************************************************)
(* getQualityScore: the quality of a stored document is requested; the     *)
(* file is then uploaded again with one cell left empty, which parseCSV    *)
(* reads as null, and the quality is requested again.                      *)
(***************************************************************************)
QualityExamples ==
  { Document(<<Row2(Num(1), Str(AL)), Row2(Num(2), Str(AL)), Row2(Num(3), Str(AL)),
               Row2(Num(4), Str(AL)), Row2(Num(5), Str(AL)), Row2(Num(100), Str(AL)),
               <<KV(NAME, Str(AL))>>>>, <<AGE, NAME>>),
    Document(AgeRows(<<1, 5, 5, 5, 9>>), <<AGE>>),
    Document(AgeRows(<<5, 5>>), <<AGE>>) }
QualityDatasets == OpDatasets \cup QualityExamples

InitQuality ==
  /\ store \in QualityDatasets
  /\ dataset = NoDocument
  /\ heap = <<>>
  /\ plan = NoPlan
  /\ pc = "quality"
  /\ i = 0
  /\ currentData = <<>>
  /\ currentHeaders = <<>>
  /\ operations = <<>>
  /\ executionResult = NoResult
  /\ response = NoResponse
  /\ calls = <<>>
  /\ console = <<>>

\* res.json({success: true, quality: qualityResult}); calls keeps the results
\* in the order they were returned
QualityResult(quality) ==
  /\ response' = [status |-> 200, success |-> TRUE, quality |-> quality]
  /\ calls' = Append(calls, quality)
  /\ pc' = IF pc = "quality" THEN "scored" ELSE "rescored"

\* getQualityScore: validateDataset, getStatistics, calculateQualityScore
GetQualityScore ==
  /\ pc \in {"quality", "again"}
  /\ dataset' = store
  /\ IF Len(store.data) = 0
       THEN /\ response' = Response(404, FALSE, "Dataset is empty", NoError, NoSuggestion)
            /\ pc' = "done"
            /\ UNCHANGED calls
       ELSE QualityResult(
              calculateQualityScore(store.data, [k \in 1..Len(store.data) |-> k],
                                    store.headers,
                                    getStatistics(store.data, [k \in 1..Len(store.data) |-> k],
                                                  store.headers)))
  /\ UNCHANGED <<store, heap, plan, i, currentData, currentHeaders, operations,
                 executionResult, console>>

\* uploadCSV of the same file with the cell of row k under header hd left
\* empty: the cell was neither null nor undefined, and is null now
UploadWithout(k, hd) ==
  /\ pc = "scored"
  /\ Get(store.data[k], hd).t \notin {"null", "undef"}
  /\ store' = Document([store.data EXCEPT ![k] = Put(@, hd, Null)], store.headers)
  /\ i' = k
  /\ response' = Response(200, TRUE, "", NoError, NoSuggestion)
  /\ pc' = "again"
  /\ UNCHANGED <<heap, dataset, plan, currentData, currentHeaders, operations,
                 executionResult, calls, console>>

NextQuality ==
  \/ GetQualityScore
  \/ \E k \in 1..Len(store.data) : \E hd \in Range(store.headers) : UploadWithout(k, hd)

SpecQuality == InitQuality /\ [][NextQuality]_vars

\* the grade the thresholds assign to a score
GradeAt(score) ==
  IF score >= 90 THEN "A"
  ELSE IF score >= 75 THEN "B"
  ELSE IF score >= 60 THEN "C"
  ELSE IF score >= 40 THEN "D"
  ELSE "F"

(***************************************************************************)
(* C18: calculateQualityScore returns a score within 0..100, and the grade *)
(* it returns is the one the thresholds assign to the score it returns: A  *)
(* from 90, B from 75, C from 60, D from 40, F below.                      *)
(***************************************************************************)
C18_GradeOfReturnedScore ==
  \A k \in 1..Len(calls) :
    /\ calls[k].score \in 0..100
    /\ calls[k].grade = GradeAt(calls[k].score)

\* six ages 1, 2, 3, 4, 5, 100 and a seventh row without an age: the score
\* 100 - 50/7 - 20/6 = 89.52 is returned as 90, with the grade B of 89.52
C18_RoundedAcrossThreshold ==
  /\ pc = "scored"
  /\ Len(store.data) = 7
  /\ calls[1].score = 90
  /\ calls[1].grade = "B"

(***************************************************************************)
(* C19: the score of a document in which one cell that was not missing is  *)
(* missing, everything else the same, is not greater than the score of the *)
(* document.                                                               *)
(***************************************************************************)
C19_MissingNeverRaisesScore ==
  pc = "rescored" => calls[2].score <= calls[1].score

\* the ages 1, 5, 5, 5, 9 score 80 (two duplicates, two outliers); with the
\* second age missing they score 84 (one missing, one duplicate, no outlier)
C19_ScoreRaised ==
  /\ pc = "rescored"
  /\ dataset.headers = <<AGE>>
  /\ [k \in 1..Len(dataset.data) |-> Get(dataset.data[k], AGE)]
       = <<Num(1), Null, Num(5), Num(5), Num(9)>>
  /\ calls[1].score = 80
  /\ calls[2].score = 84

(***************************************************************************)
(* findColumn alone: filterRows resolves the column of every condition     *)
(* against the headers before it filters, and writes the header it found   *)
(* into the condition.                                                     *)
(***************************************************************************)
MaxHeaders == 2

CUSTOMERS_AGE == <<"C","u","s","t","o","m","e","r","'","s"," ","A","g","e">>
ZZZ_NOT_A_COLUMN == <<"z","z","z","_","n","o","t","_","a","_","c","o","l","u","m","n">>
FIRST_NAME == <<"f","i","r","s","t","_","n","a","m","e">>
FIRSTNAME == <<"f","i","r","s","t","N","a","m","e">>

HeaderChoices ==
  {AGE, NAME, <<"A","g","e">>, <<"a","g">>, FIRST_NAME, FIRSTNAME}
Labels ==
  { Str(CUSTOMERS_AGE), Str(ZZZ_NOT_A_COLUMN), Str(AGE), Str(<<"A","G","E">>),
    Str(<<"t","h","e"," ","n","a","m","e","s">>),
    Str(<<"f","i","r","s","t"," ","n","a","m","e">>),
    Str(<<"F","i","r","s","t"," ","N","a","m","e">>),
    Str(<<"n","a","m">>), Str(<<"a","g","e"," ","o","f"," ","a","l">>),
    Str(<<" ","A","g","e"," ">>), Str(<<" ">>), Null }

\* the lists of at most n distinct headers
RECURSIVE HeaderLists(_)
HeaderLists(n) ==
  IF n = 0 THEN {<<>>}
  ELSE LET shorter == HeaderLists(n - 1)
       IN shorter \cup UNION {{Append(l, hd) : hd \in HeaderChoices \ Range(l)} :
                                l \in {l \in shorter : Len(l) = n - 1}}

InitResolve ==
  /\ store \in {Document(<<>>, headers) : headers \in HeaderLists(MaxHeaders)}
  /\ dataset = store
  /\ heap = <<>>
  /\ plan \in {Plan(OPERATION, FILTER_ROWS, FilterParams(<<Cond(label, "eq", Null)>>, "AND"),
                    <<>>, <<>>) : label \in Labels}
  /\ pc = "resolve"
  /\ i = 0
  /\ currentData = <<>>
  /\ currentHeaders = store.headers
  /\ operations = <<>>
  /\ executionResult = NoResult
  /\ response = NoResponse
  /\ calls = <<>>
  /\ console = <<>>

\* condition.column = foundColumn, when a column was found
Normalized(condition, foundColumn) ==
  IF foundColumn = NotFound THEN condition
  ELSE [condition EXCEPT !.column = Str(foundColumn)]

\* a call of findColumn: the column it was given and what it returned
Resolution(column, found) == [column |-> column, found |-> found]

\* filterRows, conditions.forEach: findColumn(condition.column) for every
\* condition; calls keeps the calls of findColumn
NormalizeConditions ==
  /\ pc = "resolve"
  /\ plan' = [plan EXCEPT !.parameters.conditions =
                [c \in 1..Len(@) |-> Normalized(@[c], findColumn(currentHeaders, @[c].column))]]
  /\ calls' = [c \in 1..Len(plan.parameters.conditions) |->
                 Resolution(plan.parameters.conditions[c].column,
                            findColumn(currentHeaders, plan.parameters.conditions[c].column))]
  /\ pc' = "resolved"
  /\ UNCHANGED <<store, heap, dataset, i, currentData, currentHeaders, operations,
                 executionResult, response, console>>

NextResolve == NormalizeConditions

SpecResolve == InitResolve /\ [][NextResolve]_vars

\* the first header of the document that passes a test
FirstHeader(Test(_)) ==
  currentHeaders[CHOOSE k \in 1..Len(currentHeaders) :
                   Test(currentHeaders[k]) /\ \A j \in 1..(k - 1) : ~Test(currentHeaders[j])]
SomeHeader(Test(_)) == \E k \in 1..Len(currentHeaders) : Test(currentHeaders[k])
\* the label: lower case without the white space around it, and normalized,
\* the leading possessive or article and an interior preposition stripped
LowerLabel(label) == trim(toLowerCase(label))
NormalLabel(label) == trim(StripPreposition(StripPossessive(LowerLabel(label))))
Squeezed(label, by) == ReplaceSpaces(NormalLabel(label), by)
\* the tests of the four stages
IsExact(label, hd) == hd = label
IsInsensitive(label, hd) == toLowerCase(hd) = LowerLabel(label)
IsSubstring(label, hd) ==
  \/ includes(toLowerCase(hd), NormalLabel(label))
  \/ includes(NormalLabel(label), toLowerCase(hd))
IsCamel(label, hd) == toLowerCase(hd) = toLowerCase(Squeezed(label, <<>>))
IsSnake(label, hd) == toLowerCase(hd) = toLowerCase(Squeezed(label, <<"_">>))
\* the header the precedence gives a label that is a string
ByPrecedence(label) ==
  IF label = <<>> THEN NotFound
  ELSE IF SomeHeader(LAMBDA hd : IsExact(label, hd)) THEN label
  ELSE IF SomeHeader(LAMBDA hd : IsInsensitive(label, hd))
    THEN FirstHeader(LAMBDA hd : IsInsensitive(label, hd))
  ELSE IF SomeHeader(LAMBDA hd : IsSubstring(label, hd))
    THEN FirstHeader(LAMBDA hd : IsSubstring(label, hd))
  ELSE IF SomeHeader(LAMBDA hd : IsCamel(label, hd))
    THEN FirstHeader(LAMBDA hd : IsCamel(label, hd))
  ELSE IF SomeHeader(LAMBDA hd : IsSnake(label, hd))
    THEN FirstHeader(LAMBDA hd : IsSnake(label, hd))
  ELSE NotFound


(***************************************************************************)
(* C20: findColumn returns a header of the document or the failure value.  *)
(* It returns the label when the label is a header; otherwise the first    *)
(* header equal to the label ignoring case (and the white space around the *)
(* label); otherwise the first header that contains the normalized label   *)
(* or is contained in it; otherwise the first header equal, ignoring case, *)
(* to the camelCase (and so PascalCase) variant, then to the snake_case    *)
(* variant; otherwise failure, as for no label.  "Customer's Age" against  *)
(* age, name is age; "zzz_not_a_column" against age, name is failure.      *)
(***************************************************************************)
C20_ResolutionPrecedence ==
  pc = "resolved" =>
    \A c \in 1..Len(calls) :
      /\ calls[c].found \in Range(currentHeaders) \cup {NotFound}
      /\ calls[c].column = Null => calls[c].found = NotFound
      /\ calls[c].column # Null => calls[c].found = ByPrecedence(calls[c].column.s)
      /\ (calls[c].column = Str(CUSTOMERS_AGE) /\ currentHeaders = <<AGE, NAME>>)
           => calls[c].found = AGE
      /\ (calls[c].column = Str(ZZZ_NOT_A_COLUMN) /\ currentHeaders = <<AGE, NAME>>)
           => calls[c].found = NotFound
      /\ plan.parameters.conditions[c].column =
           IF calls[c].found = NotFound THEN calls[c].column ELSE Str(calls[c].found)

\* "Customer's Age" against the headers age, name has resolved to age
C20_Witness ==
  /\ pc = "resolved"
  /\ currentHeaders = <<AGE, NAME>>
  /\ calls = <<Resolution(Str(CUSTOMERS_AGE), AGE)>>
  /\ plan.parameters.conditions[1].column = Str(AGE)

\* the operators that compare numbers
NumericOperators == {"gt", "lt", "gte", "lte", "odd", "even"}
\* the cell is no number: null, undefined, the empty string, or a string that
\* does not parse as a number
NotANumber(cell) ==
  \/ cell.t \in {"null", "undef"}
  \/ cell.t = "str" /\ (cell.s = <<>> \/ ParseNumber(cell.s).nan)
\* the cell of a row of the document in the column the condition resolves to
ResolvedCell(id, c) ==
  Get(store.data[id], findColumn(dataset.headers, plan.parameters.conditions[c].column))

(***************************************************************************)
(* C21: a condition with one of the operators gt, lt, gte, lte, odd, even  *)
(* is false for every row whose cell in the resolved column is no number   *)
(* (null, undefined and the empty string included), whatever the value; a  *)
(* filter of that one condition keeps every such row.                      *)
(***************************************************************************)
C21_NonNumberCellIsFalse ==
  pc = "filtered" =>
    \A c \in 1..NumConditions :
      (Resolves(c) /\ plan.parameters.conditions[c].operator \in NumericOperators) =>
        \A k \in 1..Len(dataset.data) :
          NotANumber(ResolvedCell(dataset.data[k], c)) =>
            /\ ~Satisfies(dataset.data[k], c)
            /\ NumConditions = 1 => \E j \in 1..Len(executionResult.data) :
                                      executionResult.data[j] = dataset.data[k]

\* 'name lte 5' has removed the row whose name is null, and only that row,
\* from the rows of names al, Al, al, null: Number(null) is 0
C21_NullAtMostFive ==
  /\ pc = "filtered"
  /\ plan.parameters.conditions = <<Cond(Str(NAME), "lte", Num(5))>>
  /\ [k \in 1..Len(store.data) |-> Get(store.data[k], NAME)]
       = <<Str(AL), Str(<<"A","l">>), Str(AL), Null>>
  /\ ResultAges = <<Num(20), Null, Num(20)>>

(***************************************************************************)
(* C22: the fallback explanation has a template for every operation of the *)
(* registry: when the fallback explains the log of an operation that was   *)
(* applied, every entry of the log has its numbered step description.      *)
(***************************************************************************)
C22_TemplateForEveryOperation ==
  (pc = "explained" /\ response.usedFallback) =>
    /\ ~response.explanation.threw
    /\ \A k \in 1..Len(operations) :
         \E d \in 1..Len(response.explanation.steps) :
           /\ response.explanation.steps[d].index = k
           /\ response.explanation.steps[d].title # ""

\* the log of standardize applied twice is explained by the fallback with no
\* step at all
C22_NoTemplate ==
  /\ pc = "explained" /\ response.usedFallback
  /\ plan.operation = STANDARDIZE
  /\ Len(operations) = 2
  /\ operations[1].type = STANDARDIZE
  /\ response.explanation.steps = <<>>

\* executionResult is a structured result: a success with its data and
\* headers, or a failure with its error
Structured(r) ==
  /\ r.success \in BOOLEAN
  /\ r.data \in Seq(1..Len(heap))
  /\ r.headers \in Seq(Seq({UpperChars[k] : k \in 1..26} \cup {LowerChars[k] : k \in 1..26}
                           \cup {"_", " "}))
  /\ r.success <=> r.error = NoError
  /\ ~r.success => r.error.kind # ""
\* the handler of the single operation of the plan throws on the document
HandlerThrows ==
  /\ plan.type # CHAIN /\ plan.type # CODE
  /\ has(normalizeOperation(IF plan.type = OPERATION THEN plan.operation
                            ELSE rawOperation(plan)))
  /\ handler(normalizeOperation(IF plan.type = OPERATION THEN plan.operation
                                ELSE rawOperation(plan)),
             store.data, dataset.data, dataset.headers, plan.parameters).threw
\* the step of the chain that was running throws on what the chain gave it
StepThrows ==
  /\ plan.type = CHAIN /\ i < Len(plan.steps)
  /\ plan.steps[i + 1].type = OPERATION
  /\ has(plan.steps[i + 1].operation)
  /\ handler(plan.steps[i + 1].operation, heap, currentData, currentHeaders,
             plan.steps[i + 1].parameters).threw

BuiltIn == {FILTER_ROWS, REMOVE_DUPLICATES, FILL_MISSING, REMOVE_OUTLIERS, STANDARDIZE,
            CLEAN, ANALYZE}
KeepCount == {FILL_MISSING, STANDARDIZE, ANALYZE}
\* steps 1..n of the chain are operations of the built-in names
BuiltInSteps(n) ==
  \A k \in 1..n : plan.steps[k].type = OPERATION /\ plan.steps[k].operation \in BuiltIn
\* sub holds elements of seq, each once, in the order of seq
Subsequence(sub, seq) ==
  /\ \A k \in 1..Len(sub) : Has(seq, sub[k])
  /\ \A k, l \in 1..Len(sub) :
       k < l => \E m, n \in 1..Len(seq) : m < n /\ seq[m] = sub[k] /\ seq[n] = sub[l]
\* a step of the chain returned with success
Stepped == pc = "chain" /\ i' = i + 1
C24_RowOrderPreserved ==
  [][(Stepped /\ BuiltInSteps(i')) =>
       /\ Subsequence(currentData', currentData)
       /\ Subsequence(currentData', dataset.data)
       /\ plan.steps[i'].operation \in KeepCount => Len(currentData') = Len(currentData)]_vars

\* the second step of a chain removed a row in the middle of the rows the
\* first step, which removed a row itself, had left
C24_Witness ==
  /\ pc = "chain" /\ i = 2 /\ BuiltInSteps(2)
  /\ plan.steps[1].operation # plan.steps[2].operation
  /\ Len(dataset.data) = 4 /\ Len(currentData) = 2
  /\ currentData[1] < currentData[2]
  /\ \E id \in 1..4 : currentData[1] < id /\ id < currentData[2]

(***************************************************************************)
(* C25: after every command that was committed (answered 200: an          *)
(* operation, a snippet, a chain, or the code generated when the command   *)
(* was not parsed), the stored columnTypes are detectColumnTypes of the    *)
(* stored rows and headers, also when the command removed every row.       *)
(***************************************************************************)
Committed == pc = "done" /\ response.status = 200
DerivedTypes ==
  detectColumnTypes(store.data, [k \in 1..Len(store.data) |-> k], store.headers)
C25_ColumnTypesDerived == Committed => store.columnTypes = DerivedTypes

\* a clean plan removed every row, each with a missing name, and was
\* committed: age is still typed as it was before, and is 'empty' when
\* detected on what is stored
C25_StaleTypes ==
  /\ Committed
  /\ plan.type = OPERATION /\ plan.operation = CLEAN
  /\ store.data = <<>> /\ store.headers = <<AGE, NAME>>
  /\ store.columnTypes[AGE] = "text"
  /\ DerivedTypes[AGE] = "empty"

(***************************************************************************)
(* C26: fill_missing fills the missing cells of a column that is not a     *)
(* number column with the modal value of the column, and when several      *)
(* values share the highest frequency it fills with the first of them met  *)
(* when the frequency counts are scanned.                                  *)
(***************************************************************************)
\* the keys counted for a column of the document: String(val) of its values
Counted(hd) ==
  [k \in 1..Len(NonEmptyValues(store.data, dataset.data, hd)) |->
     String(NonEmptyValues(store.data, dataset.data, hd)[k])]
\* the keys of the highest frequency, in the order the counts are scanned
Modal(hd) ==
  SelectSeq(ObjectKeys(Counted(hd)),
            LAMBDA key : \A other \in Range(Counted(hd)) :
                           Count(Counted(hd), other) <= Count(Counted(hd), key))
\* the cells of column hd that were missing hold the value v
FilledWith(hd, v) ==
  \A id \in Range(dataset.data) :
    ~NonEmpty(Get(store.data[id], hd)) => Get(heap[id], hd) = Str(v)
\* the columns fill_missing fills with the mode
ModeColumns ==
  {hd \in Range(dataset.headers) : dataset.columnTypes[hd] # "number" /\ Counted(hd) # <<>>}
C26_FirstModalValueFills ==
  Applied(FILL_MISSING, 1) => \A hd \in ModeColumns : FilledWith(hd, Head(Modal(hd)))

\* 'al' and 'Bob ' are counted once each, in this order, and the missing
\* name is filled with 'Bob '
C26_LastModalValueFilled ==
  /\ Applied(FILL_MISSING, 1)
  /\ NAME \in ModeColumns
  /\ Modal(NAME) = <<AL, <<"B","o","b"," ">>>>
  /\ \E id \in Range(dataset.data) : ~NonEmpty(Get(store.data[id], NAME))
  /\ FilledWith(NAME, <<"B","o","b"," ">>)

(***************************************************************************)
(* C27: standardize trims every string cell and decides the case column by *)
(* column, from the number of distinct values the column holds when        *)
(* standardize is given it: with fewer than 20 distinct values every       *)
(* string value is lower-cased, with 20 or more no value's case changes.   *)
(***************************************************************************)
\* the distinct values of a column of the document as stored
DistinctGiven(hd) == Cardinality(Range(Column(store.data, dataset.data, hd)))
\* what the claim makes of a string of column hd
Standardized(hd, str) ==
  IF DistinctGiven(hd) < StandardizeMaxUnique THEN toLowerCase(trim(str)) ELSE trim(str)
C27_CaseDecidedPerColumn ==
  Applied(STANDARDIZE, 1) =>
    \A hd \in Range(dataset.headers) : \A id \in Range(dataset.data) :
      Get(store.data[id], hd).t = "str" =>
        Get(heap[id], hd) = Str(Standardized(hd, Get(store.data[id], hd).s))

\* a column of nineteen distinct names, 'A' in its first two rows: the
\* first is lower-cased and the second is left as it was
C27_MixedCase ==
  /\ Applied(STANDARDIZE, 1)
  /\ dataset.headers = <<NAME>>
  /\ DistinctGiven(NAME) = StandardizeMaxUnique - 1
  /\ Get(store.data[1], NAME) = Str(<<"A">>) /\ Get(store.data[2], NAME) = Str(<<"A">>)
  /\ Get(heap[1], NAME) = Str(<<"a">>) /\ Get(heap[2], NAME) = Str(<<"A">>)

(***************************************************************************)
(* Two processCommand requests on the same dataset id.  Each request has   *)
(* its own document, row objects, plan, execution result and response: in  *)
(* this specification heap, dataset, plan, pc, operations, executionResult *)
(* and response hold one value per request.  The requests meet at the      *)
(* persistence layer only: Dataset.findById hands a request a document of  *)
(* its own, and dataset.save() replaces the stored document with the       *)
(* fields the request set.  calls keeps the findById and save calls in     *)
(* the order the persistence layer served them.                            *)
(***************************************************************************)
Requests == {1, 2}

RacePlans ==
  { Plan(OPERATION, FILTER_ROWS, FilterParams(<<AgeOver25>>, "AND"), <<>>, <<>>),
    Plan(OPERATION, REMOVE_DUPLICATES, NoParams, <<>>, <<>>),
    Plan(OPERATION, FILL_MISSING, NoParams, <<>>, <<>>),
    Plan(OPERATION, STANDARDIZE, NoParams, <<>>, <<>>),
    Plan(OPERATION, FROBNICATE, NoParams, <<>>, <<>>) }

InitRace ==
  /\ store \in Datasets
  /\ heap = [r \in Requests |-> <<>>]
  /\ dataset = [r \in Requests |-> NoDocument]
  /\ plan \in [Requests -> RacePlans]
  /\ pc = [r \in Requests |-> "idle"]
  /\ operations = [r \in Requests |-> <<>>]
  /\ executionResult = [r \in Requests |-> NoResult]
  /\ response = [r \in Requests |-> NoResponse]
  /\ calls = <<>>
  /\ i = 0
  /\ currentData = <<>>
  /\ currentHeaders = <<>>
  /\ console = <<>>

\* a call served by the persistence layer for a request, with the document
\* it returned or wrote
Served(fn, r, document) == Call(fn, [request |-> r, document |-> document])

\* Dataset.findById(dataId): the request gets the stored document, with row
\* objects of its own
FindById(r) ==
  /\ pc[r] = "idle"
  /\ heap' = [heap EXCEPT ![r] = store.data]
  /\ dataset' = [dataset EXCEPT ![r] = [store EXCEPT !.data = [k \in 1..Len(store.data) |-> k]]]
  /\ calls' = Append(calls, Served("findById", r, store))
  /\ pc' = [pc EXCEPT ![r] = "loaded"]
  /\ UNCHANGED <<store, plan, i, currentData, currentHeaders, operations, executionResult,
                 response, console>>

\* the request has the result of its plan: a failure is answered 400
RaceExecuted(r, result) ==
  /\ heap' = [heap EXCEPT ![r] = result.heap]
  /\ executionResult' = [executionResult EXCEPT ![r] = Kept(result)]
  /\ operations' = [operations EXCEPT ![r] = <<LogEntry(normalizeOperation(plan[r].operation),
                                                       result.changes)>>]
  /\ IF result.success
       THEN /\ pc' = [pc EXCEPT ![r] = "executed"]
            /\ UNCHANGED response
       ELSE /\ pc' = [pc EXCEPT ![r] = "failed"]
            /\ response' = [response EXCEPT ![r] =
                 Response(400, FALSE, "Execution failed", result.error,
                          IF result.suggestion # NoSuggestion THEN result.suggestion
                          ELSE Suggestion("Please try rephrasing your command", <<>>))]

\* processCommand of a request, from the plan to the execution result
Execute(r) ==
  /\ pc[r] = "loaded"
  /\ RaceExecuted(r, executeOperation(normalizeOperation(plan[r].operation), plan[r].parameters,
                                      heap[r], dataset[r].data, dataset[r].headers))
  /\ UNCHANGED <<store, dataset, plan, i, currentData, currentHeaders, calls, console>>

\* Updated without the assignment of the data
UpdatedKeepingData(document, result, h) ==
  [data |-> document.data,
   headers |-> result.headers,
   rowCount |-> Len(result.data),
   columnTypes |-> IF Len(result.headers) > 0 /\ Len(result.data) > 0
                     THEN detectColumnTypes(h, result.data, result.headers)
                     ELSE document.columnTypes]

\* the document of a request after processCommand assigned it the result
Updated(document, result, h) ==
  [data |-> result.data,
   headers |-> result.headers,
   rowCount |-> Len(result.data),
   columnTypes |-> IF Len(result.headers) > 0 /\ Len(result.data) > 0
                     THEN detectColumnTypes(h, result.data, result.headers)
                     ELSE document.columnTypes]

\* dataset.save(): the stored document is now the document of the request
Saved(document, h) == [document EXCEPT !.data = Rows(h, document.data)]

\* processCommand of a request, from a successful result to the response
Save(r) ==
  /\ pc[r] = "executed"
  /\ dataset' = [dataset EXCEPT ![r] = Updated(dataset[r], executionResult[r], heap[r])]
  /\ store' = Saved(dataset'[r], heap[r])
  /\ calls' = Append(calls, Served("save", r, store'))
  /\ response' = [response EXCEPT ![r] = Response(200, TRUE, "", NoError, NoSuggestion)]
  /\ pc' = [pc EXCEPT ![r] = "saved"]
  /\ UNCHANGED <<heap, plan, i, currentData, currentHeaders, operations, executionResult,
                 console>>

NextRace == \E r \in Requests : FindById(r) \/ Execute(r) \/ Save(r)

SpecRace == InitRace /\ [][NextRace]_vars

(***************************************************************************)
(* C28: when two processCommand requests on the same dataset id            *)
(* interleave, the latest write wins: the stored document is the result of *)
(* the command of the request that saved last, applied to the document     *)
(* that request loaded, whatever the other request did in between; and a   *)
(* request that has loaded its document holds the rows it loaded until it  *)
(* executes, untouched by the other request.                               *)
(***************************************************************************)
SaveCalls == SelectSeq(calls, LAMBDA c : c.fn = "save")
LastSaver == SaveCalls[Len(SaveCalls)].name.request
\* the document findById returned to the request
LoadedBy(r) == (CHOOSE c \in Range(calls) : c.fn = "findById" /\ c.name.request = r).name.document
\* the command of the request applied to the document d alone
CommandOn(r, d) ==
  executeOperation(normalizeOperation(plan[r].operation), plan[r].parameters, d.data,
                   [k \in 1..Len(d.data) |-> k], d.headers)
\* the document d once the result is stored in place of its rows
StoredResult(d, result) ==
  [data |-> Rows(result.heap, result.data),
   headers |-> result.headers,
   rowCount |-> Len(result.data),
   columnTypes |-> IF Len(result.headers) > 0 /\ Len(result.data) > 0
                     THEN detectColumnTypes(result.heap, result.data, result.headers)
                     ELSE d.columnTypes]
SingleStepChain ==
  pc = "executed" /\ plan.type = CHAIN /\ Len(plan.steps) = 1 /\ plan.steps[1].type = OPERATION
\* what processCommand executes for the step given as a plan of its own, on
\* the stored document
AsPlan(step) ==
  executeOperation(normalizeOperation(step.operation), step.parameters, store.data,
                   dataset.data, dataset.headers)
\* the plan of its own is answered 400 before or after the execution
PlanFails(step) ==
  ~HasConditions(normalizeOperation(step.operation), step.parameters) \/ ~AsPlan(step).success
C29_SingleStepChainAsPlan ==
  SingleStepChain =>
    /\ executionResult.success <=> ~PlanFails(plan.steps[1])
    /\ executionResult.success =>
         /\ Rows(heap, executionResult.data) =
              Rows(AsPlan(plan.steps[1]).heap, AsPlan(plan.steps[1]).data)
         /\ executionResult.headers = AsPlan(plan.steps[1]).headers

\* the step 'duplicates' fails in the chain as an unknown operation, and as
\* a plan of its own it removes the duplicate row
C29_AliasUnknownInChain ==
  /\ SingleStepChain
  /\ plan.steps[1].operation = DUPLICATES
  /\ ~executionResult.success
  /\ executionResult.error.kind = "Unknown operation: "
  /\ AsPlan(plan.steps[1]).success
  /\ Len(AsPlan(plan.steps[1]).data) < Len(dataset.data)

(***************************************************************************)
(* frontend/src/hooks/useUndoRedo.  In this specification store is the     *)
(* state React keeps for the hook (history and currentIndex, with the      *)
(* queued updates applied), response is what the hook computed at the last *)
(* render (the state, canUndo, canRedo, and the currentIndex and           *)
(* history.length its callbacks closed over), calls holds the calls made   *)
(* since that render, and operations the calls the last render followed.   *)
(* Calls made in one event handler run before React renders again: they    *)
(* read the same closure, and their updaters are applied in order.         *)
(***************************************************************************)
MaxHistory == 50
MaxBatch == 2

HookStates == {"a", "b"}
Hook(h, index) == [history |-> h, currentIndex |-> index]

\* prev.slice(0, end)
slice(prev, end) ==
  SubSeq(prev, 1, IF end < 0 THEN (IF Len(prev) + end < 0 THEN 0 ELSE Len(prev) + end)
                  ELSE IF end > Len(prev) THEN Len(prev) ELSE end)

\* the rest of the updater of setState once newState is pushed
pushed(newHistory, st) ==
  IF Len(newHistory) > MaxHistory
    THEN Hook(Tail(newHistory), st.currentIndex)
    ELSE Hook(newHistory, st.currentIndex + 1)

\* setState(newState), called with the closure of the last render
setState(st, closure, newState) ==
  pushed(Append(slice(st.history, closure.currentIndex + 1), newState), st)

\* undo()
undo(st, closure) ==
  IF closure.currentIndex > 0 THEN Hook(st.history, st.currentIndex - 1) ELSE st

\* redo()
redo(st, closure) ==
  IF closure.currentIndex < closure.length - 1 THEN Hook(st.history, st.currentIndex + 1) ELSE st

\* what useUndoRedo computes when the component renders
rendered(st) ==
  [state |-> IF 0 <= st.currentIndex /\ st.currentIndex < Len(st.history)
               THEN st.history[st.currentIndex + 1] ELSE "undefined",
   canUndo |-> st.currentIndex > 0,
   canRedo |-> st.currentIndex < Len(st.history) - 1,
   currentIndex |-> st.currentIndex,
   length |-> Len(st.history)]

InitUndo ==
  /\ store = Hook(<<"a">>, 0)
  /\ response = rendered(store)
  /\ calls = <<>>
  /\ operations = <<>>
  /\ heap = <<>>
  /\ dataset = NoDocument
  /\ plan = NoPlan
  /\ pc = "hook"
  /\ i = 0
  /\ currentData = <<>>
  /\ currentHeaders = <<>>
  /\ executionResult = NoResult
  /\ console = <<>>

\* the states a call of setState is given: a state other than the one it
\* is pushed after
Other(prefix) == IF prefix = <<>> THEN HookStates ELSE HookStates \ {prefix[Len(prefix)]}
NewStates == Other(slice(store.history, response.currentIndex + 1))

SetState ==
  /\ Len(calls) < MaxBatch
  /\ \E newState \in NewStates :
       /\ store' = setState(store, response, newState)
       /\ calls' = Append(calls, Call("setState", newState))
  /\ UNCHANGED <<heap, dataset, plan, pc, i, currentData, currentHeaders, operations,
                 executionResult, response, console>>

Undo ==
  /\ Len(calls) < MaxBatch
  /\ store' = undo(store, response)
  /\ calls' = Append(calls, Call("undo", ""))
  /\ UNCHANGED <<heap, dataset, plan, pc, i, currentData, currentHeaders, operations,
                 executionResult, response, console>>

Redo ==
  /\ Len(calls) < MaxBatch
  /\ store' = redo(store, response)
  /\ calls' = Append(calls, Call("redo", ""))
  /\ UNCHANGED <<heap, dataset, plan, pc, i, currentData, currentHeaders, operations,
                 executionResult, response, console>>

\* React renders the component after the calls of an event handler
Render ==
  /\ calls # <<>>
  /\ response' = rendered(store)
  /\ operations' = calls
  /\ calls' = <<>>
  /\ UNCHANGED <<store, heap, dataset, plan, pc, i, currentData, currentHeaders,
                 executionResult, console>>

NextUndo == SetState \/ Undo \/ Redo \/ Render

SpecUndo == InitUndo /\ [][NextUndo]_vars

(***************************************************************************)
(* C30: in useUndoRedo, after any sequence of setState, undo and redo      *)
(* calls, 0 <= currentIndex < history.length <= 50; right after            *)
(* setState(s) the current state is s and canRedo is false; undo at index  *)
(* 0 and redo at the last index change nothing; and undo followed by redo  *)
(* returns to the same state.                                              *)
(***************************************************************************)
InRange(st) ==
  0 <= st.currentIndex /\ st.currentIndex < Len(st.history) /\ Len(st.history) <= MaxHistory
\* the hook as rendered, no call pending
Settled == calls = <<>>
C30_UndoRedoInvariants ==
  /\ InRange(store)
  /\ Settled =>
       /\ \A newState \in HookStates :
            /\ rendered(setState(store, response, newState)).state = newState
            /\ ~rendered(setState(store, response, newState)).canRedo
       /\ store.currentIndex = 0 => undo(store, response) = store
       /\ store.currentIndex = Len(store.history) - 1 => redo(store, response) = store
       /\ response.canUndo =>
            redo(undo(store, response), rendered(undo(store, response))) = store

\* undo was called twice in one event handler at index 1: React rendered
\* currentIndex -1, and the state of the hook is undefined
C30_IndexBelowZero ==
  /\ Settled
  /\ operations = <<Call("undo", ""), Call("undo", "")>>
  /\ store.currentIndex = -1
  /\ response.state = "undefined"
  /\ Len(store.history) = 2

====
